---- MODULE Spec2Model ----
(***************************************************************************)
(* Air-traffic separation management: rate-limited aircraft kinematics,    *)
(* pairwise conflict prediction, the conflict-resolution policy and the    *)
(* safety monitor, as implemented in src/src/atc_simulator.                *)
(*                                                                         *)
(* Numbers are fixed-point integers:                                       *)
(*   time       in 1/SEC second   (SEC = 10: a 10 Hz update is one unit)   *)
(*   altitude   in 1/FT foot      (FT = 3: 2000 ft/min is 10 per time unit)*)
(*   heading    in 1/DEG degree   (DEG = 10: 3 deg/s is 3 per time unit)   *)
(*   x, y       in 1/NM naut.mile (NM = 3600: 1 kt is 1 per second)        *)
(*   speed      in knots                                                   *)
(* A horizontal separation is carried as its SQUARE (distance_to): every   *)
(* use the program makes of it is an order comparison, and squaring is     *)
(* monotone on non-negative numbers.                                       *)
(***************************************************************************)
EXTENDS Integers, Sequences, FiniteSets, TLC

VARIABLES
    aircraft,               \* Simulator.aircraft: sequence of Aircraft records
    current_time,           \* Simulator.current_time
    time_step,              \* Simulator.time_step
    conflicts,              \* Airspace.conflicts
    instructions,           \* ATCSystem.instructions
    instruction_count,      \* ATCSystem.instruction_count
    violations,             \* SafetyEvaluator.violations (history)
    active_violations,      \* SafetyEvaluator.active_violations: pair_key -> index into violations
    near_misses,            \* SafetyEvaluator.near_misses
    detected_conflicts,     \* SafetyEvaluator.detected_conflicts
    total_aircraft_seen,    \* SafetyEvaluator.total_aircraft_seen
    simulation_start_time,  \* SafetyEvaluator.simulation_start_time
    simulation_end_time,    \* SafetyEvaluator.simulation_end_time
    pc,                     \* position inside Simulator.step
    call                    \* the last call made by the driver, with its arguments and result

aircraftVars == <<aircraft>>
clockVars == <<current_time, time_step>>
atcVars == <<instructions, instruction_count>>
safetyVars == <<violations, active_violations, near_misses, detected_conflicts,
                total_aircraft_seen, simulation_start_time, simulation_end_time>>
vars == <<aircraft, current_time, time_step, conflicts, instructions, instruction_count,
          violations, active_violations, near_misses, detected_conflicts,
          total_aircraft_seen, simulation_start_time, simulation_end_time, pc, call>>

(***************************************************************************)
(* Units and the program's constants                                       *)
(***************************************************************************)
SEC == 10
FT == 3
DEG == 10
NM == 3600
\* Python's None for an Optional[float] field
None == -999999

MAX_CLIMB_RATE == 2000
MAX_DESCENT_RATE == 2000
MAX_TURN_RATE == 3
MAX_SPEED_CHANGE == 10
MIN_ALTITUDE == 1000 * FT
MAX_ALTITUDE == 45000 * FT
MIN_SPEED == 120
MAX_SPEED == 550

Abs(n) == IF n < 0 THEN -n ELSE n
Min2(a, b) == IF a < b THEN a ELSE b
Max2(a, b) == IF a > b THEN a ELSE b

\* n/d rounded to the nearest integer, halves away from zero (d > 0)
RoundDiv(n, d) == IF n >= 0 THEN (n + d \div 2) \div d ELSE -(((-n) + d \div 2) \div d)

(***************************************************************************)
(* math.sin / math.cos of math.radians(heading), scaled by SinScale: the   *)
(* table holds whole degrees, tenths of a degree are interpolated          *)
(***************************************************************************)
SinScale == 10000
SinTable ==
  << 0, 175, 349, 523, 698, 872, 1045, 1219, 1392, 1564,
     1736, 1908, 2079, 2250, 2419, 2588, 2756, 2924, 3090, 3256,
     3420, 3584, 3746, 3907, 4067, 4226, 4384, 4540, 4695, 4848,
     5000, 5150, 5299, 5446, 5592, 5736, 5878, 6018, 6157, 6293,
     6428, 6561, 6691, 6820, 6947, 7071, 7193, 7314, 7431, 7547,
     7660, 7771, 7880, 7986, 8090, 8192, 8290, 8387, 8480, 8572,
     8660, 8746, 8829, 8910, 8988, 9063, 9135, 9205, 9272, 9336,
     9397, 9455, 9511, 9563, 9613, 9659, 9703, 9744, 9781, 9816,
     9848, 9877, 9903, 9925, 9945, 9962, 9976, 9986, 9994, 9998,
     10000 >>

\* the sine of q heading units, 0 <= q <= 90 degrees
SinQuadrant(q) ==
    IF q % DEG = 0
    THEN SinTable[(q \div DEG) + 1]
    ELSE RoundDiv(SinTable[(q \div DEG) + 1] * (DEG - (q % DEG))
                    + SinTable[(q \div DEG) + 2] * (q % DEG), DEG)

Sin(heading) ==
    LET d == heading % (360 * DEG)
    IN  IF d <= 90 * DEG THEN SinQuadrant(d)
        ELSE IF d <= 180 * DEG THEN SinQuadrant(180 * DEG - d)
        ELSE IF d <= 270 * DEG THEN -SinQuadrant(d - 180 * DEG)
        ELSE -SinQuadrant(360 * DEG - d)

Cos(heading) == Sin(heading + 90 * DEG)

(***************************************************************************)
(* Position                                                                *)
(***************************************************************************)
\* Beyond SepCap on either axis the separation is reported as Far: the
\* squares stay inside TLC's integers, and every distance the program
\* compares against (1 NM, 2.5 NM, 3.75 NM, 5 NM, 7.5 NM) is below SepCap.
SepCap == 30000
Far == 2 * SepCap * SepCap

\* Position.distance_to, squared
distance_to(p, q) ==
    LET dx == Abs(p.x - q.x)
        dy == Abs(p.y - q.y)
    IN  IF dx > SepCap \/ dy > SepCap THEN Far ELSE dx * dx + dy * dy

\* Position.vertical_separation
vertical_separation(p, q) == Abs(p.altitude - q.altitude)

\* the square of (num/den) nautical miles, for comparisons with distance_to
NMsq(num, den) == ((num * NM) \div den) * ((num * NM) \div den)

(***************************************************************************)
(* Aircraft                                                                *)
(***************************************************************************)
\* Waypoint(name, x, y, altitude)
Waypoint(x, y, altitude) == [x |-> x, y |-> y, altitude |-> altitude]

\* Aircraft.__init__
Aircraft(callsign, x, y, altitude, speed, heading, flight_plan) ==
    [callsign |-> callsign, x |-> x, y |-> y, altitude |-> altitude,
     speed |-> speed, heading |-> heading, flight_plan |-> flight_plan,
     target_altitude |-> None, target_heading |-> None, target_speed |-> None,
     current_waypoint_index |-> 0, time_in_simulation |-> 0]

\* among the headings lo*step, (lo+1)*step, ..., (hi-1)*step (lo < hi), the one
\* whose unit vector is best aligned with (sx, sy), the smallest on a tie
RECURSIVE best_heading(_, _, _, _, _)
best_heading(sx, sy, lo, hi, step) ==
    IF hi - lo = 1 THEN lo * step
    ELSE LET mid == (lo + hi) \div 2
             a == best_heading(sx, sy, lo, mid, step)
             b == best_heading(sx, sy, mid, hi, step)
         IN  IF sx * Sin(b) + sy * Cos(b) > sx * Sin(a) + sy * Cos(a) THEN b ELSE a

\* Aircraft._calculate_heading_to_waypoint: degrees(atan2(dx, dy)) % 360, to the
\* nearest heading unit: the best whole degree, then the best tenth around it
calculate_heading_to_waypoint(ac, wp) ==
    LET dx == wp.x - ac.x
        dy == wp.y - ac.y
        k == (Max2(Abs(dx), Abs(dy)) \div 1000) + 1
        sx == dx \div k
        sy == dy \div k
        coarse == best_heading(sx, sy, 0, 360, DEG)
    IN  IF dx = 0 THEN (IF dy >= 0 THEN 0 ELSE 180 * DEG)
        ELSE IF dy = 0 THEN (IF dx > 0 THEN 90 * DEG ELSE 270 * DEG)
        ELSE best_heading(sx, sy, coarse + 360 * DEG - DEG, coarse + 360 * DEG + DEG + 1, 1)
               % (360 * DEG)

\* the difference of the two headings, not brought into [-180, 180]
shortest_heading_difference_unwrapped(current, target) == target - current

\* Aircraft._shortest_heading_difference
shortest_heading_difference(current, target) ==
    LET diff == target - current
        turn == 360 * DEG
    IN  IF diff > 180 * DEG THEN diff - turn * ((diff + 180 * DEG - 1) \div turn)
        ELSE IF diff < -180 * DEG THEN diff + turn * ((-diff + 180 * DEG - 1) \div turn)
        ELSE diff

\* an altitude update without the snap within 10 ft: the rate alone decides
update_altitude_without_snap(ac, time_delta) ==
    IF ac.target_altitude = None
    THEN IF ac.current_waypoint_index < Len(ac.flight_plan)
            /\ ac.flight_plan[ac.current_waypoint_index + 1].altitude # None
         THEN [ac EXCEPT !.target_altitude = ac.flight_plan[ac.current_waypoint_index + 1].altitude]
         ELSE ac
    ELSE LET altitude_diff == ac.target_altitude - ac.altitude
             max_change == ((IF altitude_diff > 0 THEN MAX_CLIMB_RATE ELSE MAX_DESCENT_RATE)
                              * FT * time_delta) \div (60 * SEC)
             moved == IF Abs(altitude_diff) <= max_change
                      THEN [ac EXCEPT !.altitude = ac.target_altitude, !.target_altitude = None]
                      ELSE [ac EXCEPT !.altitude = IF altitude_diff > 0 THEN @ + max_change
                                                                        ELSE @ - max_change]
         IN  [moved EXCEPT !.altitude = Max2(MIN_ALTITUDE, Min2(MAX_ALTITUDE, @))]

\* Aircraft._update_altitude
update_altitude(ac, time_delta) ==
    IF ac.target_altitude = None
    THEN IF ac.current_waypoint_index < Len(ac.flight_plan)
            /\ ac.flight_plan[ac.current_waypoint_index + 1].altitude # None
         THEN [ac EXCEPT !.target_altitude = ac.flight_plan[ac.current_waypoint_index + 1].altitude]
         ELSE ac
    ELSE LET altitude_diff == ac.target_altitude - ac.altitude
             max_change == ((IF altitude_diff > 0 THEN MAX_CLIMB_RATE ELSE MAX_DESCENT_RATE)
                              * FT * time_delta) \div (60 * SEC)
             moved == IF Abs(altitude_diff) <= max_change
                      THEN [ac EXCEPT !.altitude = ac.target_altitude, !.target_altitude = None]
                      ELSE [ac EXCEPT !.altitude = IF altitude_diff > 0 THEN @ + max_change
                                                                        ELSE @ - max_change]
         IN  IF Abs(altitude_diff) < 10 * FT
             THEN [ac EXCEPT !.altitude = ac.target_altitude, !.target_altitude = None]
             ELSE [moved EXCEPT !.altitude = Max2(MIN_ALTITUDE, Min2(MAX_ALTITUDE, @))]

\* Aircraft._update_heading
update_heading(ac, time_delta) ==
    IF ac.target_heading = None
    THEN IF ac.current_waypoint_index < Len(ac.flight_plan)
         THEN [ac EXCEPT !.target_heading =
                   calculate_heading_to_waypoint(ac, ac.flight_plan[ac.current_waypoint_index + 1])]
         ELSE ac
    ELSE LET heading_diff == shortest_heading_difference(ac.heading, ac.target_heading)
             max_turn == (MAX_TURN_RATE * DEG * time_delta) \div SEC
             moved == IF Abs(heading_diff) <= max_turn
                      THEN [ac EXCEPT !.heading = ac.target_heading, !.target_heading = None]
                      ELSE [ac EXCEPT !.heading = IF heading_diff > 0 THEN @ + max_turn
                                                                      ELSE @ - max_turn]
         IN  IF 2 * Abs(heading_diff) < DEG
             THEN [ac EXCEPT !.heading = ac.target_heading, !.target_heading = None]
             ELSE [moved EXCEPT !.heading = @ % (360 * DEG)]

\* Aircraft._update_speed
update_speed(ac, time_delta) ==
    IF ac.target_speed = None
    THEN ac
    ELSE LET speed_diff == ac.target_speed - ac.speed
             max_change == (MAX_SPEED_CHANGE * time_delta) \div SEC
             moved == IF Abs(speed_diff) <= max_change
                      THEN [ac EXCEPT !.speed = ac.target_speed, !.target_speed = None]
                      ELSE [ac EXCEPT !.speed = IF speed_diff > 0 THEN @ + max_change
                                                                  ELSE @ - max_change]
         IN  IF Abs(speed_diff) < 1
             THEN [ac EXCEPT !.speed = ac.target_speed, !.target_speed = None]
             ELSE [moved EXCEPT !.speed = Max2(MIN_SPEED, Min2(MAX_SPEED, @))]

\* a position update in the mathematical convention: heading 0 along +X
update_position_math_axes(ac, time_delta) ==
    LET distance == ac.speed * time_delta
    IN  [ac EXCEPT !.x = @ + RoundDiv(distance * Cos(ac.heading), SinScale * SEC),
                   !.y = @ + RoundDiv(distance * Sin(ac.heading), SinScale * SEC)]

\* Aircraft._update_position: speed * (time_delta / 3600.0) nautical miles is
\* speed * time_delta / SEC position units
update_position(ac, time_delta) ==
    LET distance == ac.speed * time_delta
    IN  [ac EXCEPT !.x = @ + RoundDiv(distance * Sin(ac.heading), SinScale * SEC),
                   !.y = @ + RoundDiv(distance * Cos(ac.heading), SinScale * SEC)]

\* Aircraft._check_waypoint_progress
check_waypoint_progress(ac) ==
    IF ac.current_waypoint_index >= Len(ac.flight_plan)
    THEN ac
    ELSE IF distance_to(ac, ac.flight_plan[ac.current_waypoint_index + 1]) < NMsq(1, 1)
         THEN [ac EXCEPT !.current_waypoint_index = @ + 1]
         ELSE ac

\* Aircraft.update
update(ac, time_delta) ==
    check_waypoint_progress(
      update_position(
        update_speed(
          update_heading(
            update_altitude([ac EXCEPT !.time_in_simulation = @ + time_delta], time_delta),
            time_delta),
          time_delta),
        time_delta))

\* an instruction that takes effect at once instead of setting a target
set_altitude_at_once(ac, altitude) ==
    [ac EXCEPT !.altitude = Max2(MIN_ALTITUDE, Min2(MAX_ALTITUDE, altitude))]

\* Aircraft.set_altitude
set_altitude(ac, altitude) ==
    [ac EXCEPT !.target_altitude = Max2(MIN_ALTITUDE, Min2(MAX_ALTITUDE, altitude))]

\* Aircraft.set_heading
set_heading(ac, heading) == [ac EXCEPT !.target_heading = heading % (360 * DEG)]

\* a target speed taken as given
set_speed_unclamped(ac, speed) == [ac EXCEPT !.target_speed = speed]

\* Aircraft.set_speed
set_speed(ac, speed) == [ac EXCEPT !.target_speed = Max2(MIN_SPEED, Min2(MAX_SPEED, speed))]

\* Aircraft.predict_position; the detector's time_ahead is in whole seconds
predict_position(ac, time_ahead) ==
    LET distance == ac.speed * time_ahead
    IN  [x |-> ac.x + RoundDiv(distance * Sin(ac.heading), SinScale),
         y |-> ac.y + RoundDiv(distance * Cos(ac.heading), SinScale),
         altitude |-> ac.altitude]

(***************************************************************************)
(* Airspace: separation standards and conflict detection                   *)
(***************************************************************************)
\* SeparationRequirements.standard; alt2 is TWICE the altitude tested, so that
\* the average of two altitudes needs no division: avg < 29000 iff a1 + a2 < 58000
standard(alt2) ==
    IF alt2 < 2 * 29000 * FT
    THEN [horizontal_nm |-> 5 * NM, vertical_ft |-> 1000 * FT]
    ELSE [horizontal_nm |-> 5 * NM, vertical_ft |-> 2000 * FT]

\* avg_altitude = (aircraft1.position.altitude + aircraft2.position.altitude) / 2, doubled
avg_altitude2(aircraft1, aircraft2) == aircraft1.altitude + aircraft2.altitude

\* Airspace.check_separation: (horizontal squared, vertical)
check_separation(aircraft1, aircraft2) ==
    [horizontal |-> distance_to(aircraft1, aircraft2),
     vertical |-> vertical_separation(aircraft1, aircraft2)]

\* is_separated with exclusive comparisons
is_separated_strict(aircraft1, aircraft2) ==
    LET sep == check_separation(aircraft1, aircraft2)
        sep_req == standard(avg_altitude2(aircraft1, aircraft2))
    IN  sep.horizontal > sep_req.horizontal_nm * sep_req.horizontal_nm
        \/ sep.vertical > sep_req.vertical_ft

\* is_separated taking the requirement at the first aircraft's altitude
is_separated_at_first(aircraft1, aircraft2) ==
    LET sep == check_separation(aircraft1, aircraft2)
        sep_req == standard(2 * aircraft1.altitude)
    IN  sep.horizontal >= sep_req.horizontal_nm * sep_req.horizontal_nm
        \/ sep.vertical >= sep_req.vertical_ft

\* Airspace.is_separated
is_separated(aircraft1, aircraft2) ==
    LET sep == check_separation(aircraft1, aircraft2)
        sep_req == standard(avg_altitude2(aircraft1, aircraft2))
    IN  sep.horizontal >= sep_req.horizontal_nm * sep_req.horizontal_nm
        \/ sep.vertical >= sep_req.vertical_ft

\* _calculate_severity with the margin tests the wrong way round
calculate_severity_wide_is_high(h_sep, v_sep, time_to_cpa, sep_req) ==
    IF time_to_cpa < 60
       \/ h_sep > (sep_req.horizontal_nm \div 2) * (sep_req.horizontal_nm \div 2)
    THEN "high"
    ELSE IF time_to_cpa < 180
            \/ h_sep > ((3 * sep_req.horizontal_nm) \div 4) * ((3 * sep_req.horizontal_nm) \div 4)
         THEN "medium"
         ELSE "low"

\* Airspace._calculate_severity (h_sep is a squared distance)
calculate_severity(h_sep, v_sep, time_to_cpa, sep_req) ==
    IF time_to_cpa < 60
       \/ h_sep < (sep_req.horizontal_nm \div 2) * (sep_req.horizontal_nm \div 2)
    THEN "high"
    ELSE IF time_to_cpa < 180
            \/ h_sep < ((3 * sep_req.horizontal_nm) \div 4) * ((3 * sep_req.horizontal_nm) \div 4)
         THEN "medium"
         ELSE "low"

\* float('inf') for a squared distance
Inf == Far + 1

\* the sampling loop of Airspace._check_pair_for_conflict over the samples
\* lo .. hi-1 (lo < hi): the first sample of least horizontal separation, which is
\* what the loop's strict "h_sep < min_horizontal" keeps.  The range is halved
\* instead of walked, to keep the evaluation shallow.
RECURSIVE cpa_scan(_, _, _, _)
cpa_scan(aircraft1, aircraft2, lo, hi) ==
    IF hi - lo = 1
    THEN LET pos1 == predict_position(aircraft1, lo)
             pos2 == predict_position(aircraft2, lo)
         IN  [min_horizontal |-> distance_to(pos1, pos2),
              min_vertical |-> Abs(pos1.altitude - pos2.altitude),
              time_at_min |-> lo]
    ELSE LET mid == (lo + hi) \div 2
             early == cpa_scan(aircraft1, aircraft2, lo, mid)
             late == cpa_scan(aircraft1, aircraft2, mid, hi)
         IN  IF late.min_horizontal < early.min_horizontal THEN late ELSE early

\* a sampling loop that starts one second on
check_pair_for_conflict_from_next(aircraft1, aircraft2, lookahead_time) ==
    LET cpa == IF lookahead_time > 1
               THEN cpa_scan(aircraft1, aircraft2, 1, lookahead_time)
               ELSE [min_horizontal |-> Inf, min_vertical |-> Inf, time_at_min |-> 0]
        sep_req == standard(avg_altitude2(aircraft1, aircraft2))
    IN  IF cpa.min_horizontal < sep_req.horizontal_nm * sep_req.horizontal_nm
           /\ cpa.min_vertical < sep_req.vertical_ft
        THEN << [aircraft1 |-> aircraft1.callsign,
                 aircraft2 |-> aircraft2.callsign,
                 time_to_cpa |-> cpa.time_at_min,
                 horizontal_separation_at_cpa |-> cpa.min_horizontal,
                 vertical_separation_at_cpa |-> cpa.min_vertical,
                 severity |-> calculate_severity(cpa.min_horizontal, cpa.min_vertical,
                                                 cpa.time_at_min, sep_req)] >>
        ELSE << >>

\* a sampling loop that also takes the sample at the end of the lookahead
check_pair_for_conflict_to_end(aircraft1, aircraft2, lookahead_time) ==
    LET cpa == cpa_scan(aircraft1, aircraft2, 0, lookahead_time + 1)
        sep_req == standard(avg_altitude2(aircraft1, aircraft2))
    IN  IF cpa.min_horizontal < sep_req.horizontal_nm * sep_req.horizontal_nm
           /\ cpa.min_vertical < sep_req.vertical_ft
        THEN << [aircraft1 |-> aircraft1.callsign,
                 aircraft2 |-> aircraft2.callsign,
                 time_to_cpa |-> cpa.time_at_min,
                 horizontal_separation_at_cpa |-> cpa.min_horizontal,
                 vertical_separation_at_cpa |-> cpa.min_vertical,
                 severity |-> calculate_severity(cpa.min_horizontal, cpa.min_vertical,
                                                 cpa.time_at_min, sep_req)] >>
        ELSE << >>

\* Airspace._check_pair_for_conflict: <<conflict>> or <<>> (Python's None)
check_pair_for_conflict(aircraft1, aircraft2, lookahead_time) ==
    LET cpa == IF lookahead_time > 0
               THEN cpa_scan(aircraft1, aircraft2, 0, lookahead_time)
               ELSE [min_horizontal |-> Inf, min_vertical |-> Inf, time_at_min |-> 0]
        sep_req == standard(avg_altitude2(aircraft1, aircraft2))
    IN  IF cpa.min_horizontal < sep_req.horizontal_nm * sep_req.horizontal_nm
           /\ cpa.min_vertical < sep_req.vertical_ft
        THEN << [aircraft1 |-> aircraft1.callsign,
                 aircraft2 |-> aircraft2.callsign,
                 time_to_cpa |-> cpa.time_at_min,
                 horizontal_separation_at_cpa |-> cpa.min_horizontal,
                 vertical_separation_at_cpa |-> cpa.min_vertical,
                 severity |-> calculate_severity(cpa.min_horizontal, cpa.min_vertical,
                                                 cpa.time_at_min, sep_req)] >>
        ELSE << >>

\* the index pairs (i, j), i < j, in the order of the two nested loops
RECURSIVE PairsFrom(_, _)
PairsFrom(i, n) ==
    IF i >= n THEN << >>
    ELSE [k \in 1..(n - i) |-> <<i, i + k>>] \o PairsFrom(i + 1, n)

AllPairs(n) == PairsFrom(1, n)

\* the conflicts of the pairs lo .. hi of the loops, in order (the range is halved
\* instead of walked, to keep the evaluation shallow)
RECURSIVE detect_from(_, _, _, _, _)
detect_from(aircraft_list, pairs, lo, hi, lookahead_time) ==
    IF lo > hi THEN << >>
    ELSE IF lo = hi
    THEN check_pair_for_conflict(aircraft_list[pairs[lo][1]], aircraft_list[pairs[lo][2]],
                                 lookahead_time)
    ELSE detect_from(aircraft_list, pairs, lo, (lo + hi) \div 2, lookahead_time)
         \o detect_from(aircraft_list, pairs, ((lo + hi) \div 2) + 1, hi, lookahead_time)

\* a detector that adds the conflicts it finds to the list it already holds
detect_conflicts_incremental(aircraft_list, lookahead_time) ==
    conflicts \o detect_from(aircraft_list, AllPairs(Len(aircraft_list)), 1,
                             Len(AllPairs(Len(aircraft_list))), lookahead_time)

\* Airspace.detect_conflicts: the list that replaces Airspace.conflicts
detect_conflicts(aircraft_list, lookahead_time) ==
    detect_from(aircraft_list, AllPairs(Len(aircraft_list)), 1,
                Len(AllPairs(Len(aircraft_list))), lookahead_time)

(***************************************************************************)
(* ATCSystem: the resolution policy.  Its operators thread the state they  *)
(* mutate, st = [aircraft, instructions, instruction_count].               *)
(***************************************************************************)
RecentLimit == 20
CooldownWindow == 60
LookaheadTime == 300

\* a lookup that falls back on the first aircraft of the list
find_aircraft_or_first(aircraft_list, callsign) ==
    IF \E i \in 1..Len(aircraft_list) : aircraft_list[i].callsign = callsign
    THEN CHOOSE i \in 1..Len(aircraft_list) :
             /\ aircraft_list[i].callsign = callsign
             /\ \A j \in 1..(i - 1) : aircraft_list[j].callsign # callsign
    ELSE Min2(1, Len(aircraft_list))

\* next((ac for ac in aircraft_list if ac.callsign == callsign), None):
\* the index of the first aircraft with that callsign, 0 for None
find_aircraft(aircraft_list, callsign) ==
    IF \E i \in 1..Len(aircraft_list) : aircraft_list[i].callsign = callsign
    THEN CHOOSE i \in 1..Len(aircraft_list) :
             /\ aircraft_list[i].callsign = callsign
             /\ \A j \in 1..(i - 1) : aircraft_list[j].callsign # callsign
    ELSE 0

\* ATCInstruction
ATCInstruction(callsign, timestamp, instruction_type, parameters, priority) ==
    [callsign |-> callsign, timestamp |-> timestamp, instruction_type |-> instruction_type,
     parameters |-> parameters, reason |-> "traffic_conflict", priority |-> priority]

\* ATCSystem._issue_instruction, to the aircraft at index idx
issue_instruction(st, instruction, idx) ==
    [aircraft |->
        [st.aircraft EXCEPT ![idx] =
            IF instruction.instruction_type = "altitude_change"
            THEN set_altitude(@, instruction.parameters.new_altitude)
            ELSE IF instruction.instruction_type = "heading_change"
            THEN set_heading(@, instruction.parameters.new_heading)
            ELSE IF instruction.instruction_type = "speed_change"
            THEN set_speed(@, instruction.parameters.new_speed)
            ELSE @],
     instructions |-> Append(st.instructions, instruction),
     instruction_count |-> st.instruction_count + 1]

\* the loop with a window that excludes its far end
RECURSIVE recent_scan_exclusive(_, _, _, _, _, _)
recent_scan_exclusive(last, k, callsign1, callsign2, now, window) ==
    IF k = 0 THEN FALSE
    ELSE IF now - last[k].timestamp >= window THEN FALSE
    ELSE IF last[k].callsign \in {callsign1, callsign2} THEN TRUE
    ELSE recent_scan_exclusive(last, k - 1, callsign1, callsign2, now, window)

\* the loop of ATCSystem._recently_instructed over last = instructions[-20:],
\* newest first, from index k down
RECURSIVE recent_scan(_, _, _, _, _, _)
recent_scan(last, k, callsign1, callsign2, now, window) ==
    IF k = 0 THEN FALSE
    ELSE IF now - last[k].timestamp > window THEN FALSE
    ELSE IF last[k].callsign \in {callsign1, callsign2} THEN TRUE
    ELSE recent_scan(last, k - 1, callsign1, callsign2, now, window)

\* instructions[-n:]
LastN(seq, n) == SubSeq(seq, Max2(1, Len(seq) - n + 1), Len(seq))

\* a check that looks for the first-named callsign only
recently_instructed_first_named(instrs, callsign1, callsign2, now, window) ==
    recent_scan(LastN(instrs, RecentLimit), Len(LastN(instrs, RecentLimit)),
                callsign1, callsign1, now, window)

\* ATCSystem._recently_instructed
recently_instructed(instrs, callsign1, callsign2, now, window) ==
    recent_scan(LastN(instrs, RecentLimit), Len(LastN(instrs, RecentLimit)),
                callsign1, callsign2, now, window)

\* the rule without its second attempt, on the higher aircraft
try_altitude_resolution_lower_only(st, i1, i2, conflict, now) ==
    LET ac1 == st.aircraft[i1]
        ac2 == st.aircraft[i2]
        sep_req == standard(avg_altitude2(ac1, ac2))
        lower == IF ac1.altitude < ac2.altitude THEN i1 ELSE i2
        down == st.aircraft[lower].altitude - sep_req.vertical_ft - 1000 * FT
        priority == IF conflict.severity = "high" THEN "high" ELSE "medium"
    IN  IF down >= MIN_ALTITUDE
        THEN [issued |-> TRUE,
              st |-> issue_instruction(st,
                        ATCInstruction(st.aircraft[lower].callsign, now,
                                       "altitude_change",
                                       [new_altitude |-> down, rate |-> "normal"], priority),
                        lower)]
        ELSE [issued |-> FALSE, st |-> st]

\* the rule with the first-named aircraft counted as the lower one on a tie
try_altitude_resolution_first_lower(st, i1, i2, conflict, now) ==
    LET ac1 == st.aircraft[i1]
        ac2 == st.aircraft[i2]
        sep_req == standard(avg_altitude2(ac1, ac2))
        lower == IF ac1.altitude <= ac2.altitude THEN i1 ELSE i2
        higher == IF ac1.altitude <= ac2.altitude THEN i2 ELSE i1
        down == st.aircraft[lower].altitude - sep_req.vertical_ft - 1000 * FT
        up == st.aircraft[higher].altitude + sep_req.vertical_ft + 1000 * FT
        priority == IF conflict.severity = "high" THEN "high" ELSE "medium"
    IN  IF down >= MIN_ALTITUDE
        THEN [issued |-> TRUE,
              st |-> issue_instruction(st,
                        ATCInstruction(st.aircraft[lower].callsign, now,
                                       "altitude_change",
                                       [new_altitude |-> down, rate |-> "normal"], priority),
                        lower)]
        ELSE IF up <= MAX_ALTITUDE
        THEN [issued |-> TRUE,
              st |-> issue_instruction(st,
                        ATCInstruction(st.aircraft[higher].callsign, now,
                                       "altitude_change",
                                       [new_altitude |-> up, rate |-> "normal"], priority),
                        higher)]
        ELSE [issued |-> FALSE, st |-> st]

\* ATCSystem._try_altitude_resolution: [issued, st]
try_altitude_resolution(st, i1, i2, conflict, now) ==
    LET ac1 == st.aircraft[i1]
        ac2 == st.aircraft[i2]
        sep_req == standard(avg_altitude2(ac1, ac2))
        lower == IF ac1.altitude < ac2.altitude THEN i1 ELSE i2
        higher == IF ac1.altitude < ac2.altitude THEN i2 ELSE i1
        down == st.aircraft[lower].altitude - sep_req.vertical_ft - 1000 * FT
        up == st.aircraft[higher].altitude + sep_req.vertical_ft + 1000 * FT
        priority == IF conflict.severity = "high" THEN "high" ELSE "medium"
    IN  IF down >= MIN_ALTITUDE
        THEN [issued |-> TRUE,
              st |-> issue_instruction(st,
                        ATCInstruction(st.aircraft[lower].callsign, now,
                                       "altitude_change",
                                       [new_altitude |-> down, rate |-> "normal"], priority),
                        lower)]
        ELSE IF up <= MAX_ALTITUDE
        THEN [issued |-> TRUE,
              st |-> issue_instruction(st,
                        ATCInstruction(st.aircraft[higher].callsign, now,
                                       "altitude_change",
                                       [new_altitude |-> up, rate |-> "normal"], priority),
                        higher)]
        ELSE [issued |-> FALSE, st |-> st]

\* a vector that is given up when the new heading would pass north
try_heading_resolution_no_wrap(st, i1, i2, conflict, now) ==
    IF st.aircraft[i1].heading + 30 * DEG >= 360 * DEG
    THEN [issued |-> FALSE, st |-> st]
    ELSE [issued |-> TRUE,
          st |-> issue_instruction(st,
                    ATCInstruction(st.aircraft[i1].callsign, now, "heading_change",
                                   [new_heading |-> st.aircraft[i1].heading + 30 * DEG],
                                   IF conflict.severity = "high" THEN "high" ELSE "medium"),
                    i1)]

\* ATCSystem._try_heading_resolution: [issued, st]
try_heading_resolution(st, i1, i2, conflict, now) ==
    [issued |-> TRUE,
     st |-> issue_instruction(st,
               ATCInstruction(st.aircraft[i1].callsign, now, "heading_change",
                              [new_heading |-> (st.aircraft[i1].heading + 30 * DEG) % (360 * DEG)],
                              IF conflict.severity = "high" THEN "high" ELSE "medium"),
               i1)]

\* ATCSystem._try_speed_resolution: [issued, st]
try_speed_resolution(st, i1, i2, conflict, now) ==
    LET ac1 == st.aircraft[i1]
        ac2 == st.aircraft[i2]
    IN  IF ac1.speed > ac2.speed
        THEN [issued |-> TRUE,
              st |-> issue_instruction(st,
                        ATCInstruction(ac1.callsign, now, "speed_change",
                                       [new_speed |-> Max2(MIN_SPEED, ac1.speed - 50)], "medium"),
                        i1)]
        ELSE [issued |-> TRUE,
              st |-> issue_instruction(st,
                        ATCInstruction(ac2.callsign, now, "speed_change",
                                       [new_speed |-> Min2(MAX_SPEED, ac2.speed + 50)], "medium"),
                        i2)]

\* ATCSystem._resolve_conflict
resolve_conflict(st, conflict, now) ==
    LET i1 == find_aircraft(st.aircraft, conflict.aircraft1)
        i2 == find_aircraft(st.aircraft, conflict.aircraft2)
        byAltitude == try_altitude_resolution(st, i1, i2, conflict, now)
        byHeading == try_heading_resolution(st, i1, i2, conflict, now)
    IN  IF i1 = 0 \/ i2 = 0 THEN st
        ELSE IF recently_instructed(st.instructions, conflict.aircraft1, conflict.aircraft2,
                                    now, CooldownWindow * SEC)
        THEN st
        ELSE IF byAltitude.issued THEN byAltitude.st
        ELSE IF byHeading.issued THEN byHeading.st
        ELSE try_speed_resolution(st, i1, i2, conflict, now).st

\* ATCSystem.get_statistics: total_instructions
get_statistics(instrs) ==
    IF Len(instrs) = 0
    THEN [total_instructions |-> 0]
    ELSE [total_instructions |-> Len(instrs)]

\* ATCSystem.clear_old_instructions: the log that replaces ATCSystem.instructions
clear_old_instructions(instrs, before_time) ==
    SelectSeq(instrs, LAMBDA inst : inst.timestamp >= before_time)

\* a filter that lets every severity through
should_resolve_any(conflict) == conflict.severity \in {"high", "medium", "low"}

\* ATCSystem.update: if conflict.severity in ["high", "medium"]
should_resolve(conflict) == conflict.severity \in {"high", "medium"}

\* the resolution loop of ATCSystem.update over the conflicts lo .. hi, in order
\* (the range is halved instead of walked and the first half evaluated before the
\* second is entered, to keep the evaluation shallow)
RECURSIVE resolve_from(_, _, _, _, _)
resolve_from(st, conflict_list, lo, hi, now) ==
    IF lo > hi THEN st
    ELSE IF lo = hi
    THEN IF should_resolve(conflict_list[lo])
         THEN resolve_conflict(st, conflict_list[lo], now)
         ELSE st
    ELSE LET first == resolve_from(st, conflict_list, lo, (lo + hi) \div 2, now)
         IN  IF first.instruction_count >= 0
             THEN resolve_from(first, conflict_list, ((lo + hi) \div 2) + 1, hi, now)
             ELSE first

(***************************************************************************)
(* SafetyEvaluator: the safety monitor.  Its operators thread the state    *)
(* they mutate, sv = [violations, active_violations, near_misses,          *)
(* detected_conflicts, total_aircraft_seen, simulation_start_time,         *)
(* simulation_end_time].  active_violations maps a pair_key to the index   *)
(* in violations of the record object it shares with the history.          *)
(***************************************************************************)
\* the callsigns in use, in Python's string order
CallsignRank(c) ==
    CASE c = "AAL200" -> 1
      [] c = "DAL300" -> 2
      [] c = "UAL100" -> 3
      [] OTHER -> 4

\* tuple(sorted([ac1.callsign, ac2.callsign]))
pair_key(callsign1, callsign2) ==
    IF CallsignRank(callsign1) <= CallsignRank(callsign2)
    THEN <<callsign1, callsign2>>
    ELSE <<callsign2, callsign1>>

\* SafetyEvaluator._classify_violation_severity (h_sep is a squared distance)
classify_violation_severity(h_sep, v_sep, ac1, ac2) ==
    LET sep_req == standard(avg_altitude2(ac1, ac2))
    IN  IF h_sep < (sep_req.horizontal_nm \div 2) * (sep_req.horizontal_nm \div 2)
        THEN "critical"
        ELSE IF h_sep < ((3 * sep_req.horizontal_nm) \div 4) * ((3 * sep_req.horizontal_nm) \div 4)
        THEN "major"
        ELSE "minor"

\* SeparationViolation
SeparationViolation(ac1, ac2, timestamp, h_sep, v_sep, severity) ==
    [aircraft1 |-> ac1.callsign, aircraft2 |-> ac2.callsign, timestamp |-> timestamp,
     horizontal_separation |-> h_sep, vertical_separation |-> v_sep,
     duration |-> 0, severity |-> severity]

\* a pair loop that takes up the pair's last record again when the pair comes
\* back into violation
check_violation_pair_resuming(acc, ac1, ac2, now) ==
    LET key == pair_key(ac1.callsign, ac2.callsign)
        sep == check_separation(ac1, ac2)
        earlier == {k \in 1..Len(acc.violations) :
                       pair_key(acc.violations[k].aircraft1, acc.violations[k].aircraft2) = key}
        last == CHOOSE k \in earlier : \A n \in earlier : n <= k
    IN  IF is_separated(ac1, ac2)
        THEN acc
        ELSE IF key \notin DOMAIN acc.active_violations /\ earlier = {}
        THEN [violations |->
                 Append(acc.violations,
                        SeparationViolation(ac1, ac2, now, sep.horizontal, sep.vertical,
                            classify_violation_severity(sep.horizontal, sep.vertical, ac1, ac2))),
              active_violations |-> acc.active_violations @@ (key :> (Len(acc.violations) + 1)),
              current_violations |-> acc.current_violations \cup {key}]
        ELSE IF key \notin DOMAIN acc.active_violations
        THEN [violations |-> [acc.violations EXCEPT ![last].duration = @ + 1],
              active_violations |-> acc.active_violations @@ (key :> last),
              current_violations |-> acc.current_violations \cup {key}]
        ELSE [violations |->
                 [acc.violations EXCEPT ![acc.active_violations[key]].duration = @ + 1],
              active_violations |-> acc.active_violations,
              current_violations |-> acc.current_violations \cup {key}]

\* the body of the pair loop of SafetyEvaluator._check_violations for one pair;
\* acc = [violations, active_violations, current_violations]
check_violation_pair(acc, ac1, ac2, now) ==
    LET key == pair_key(ac1.callsign, ac2.callsign)
        sep == check_separation(ac1, ac2)
    IN  IF is_separated(ac1, ac2)
        THEN acc
        ELSE IF key \notin DOMAIN acc.active_violations
        THEN [violations |->
                 Append(acc.violations,
                        SeparationViolation(ac1, ac2, now, sep.horizontal, sep.vertical,
                            classify_violation_severity(sep.horizontal, sep.vertical, ac1, ac2))),
              active_violations |-> acc.active_violations @@ (key :> (Len(acc.violations) + 1)),
              current_violations |-> acc.current_violations \cup {key}]
        ELSE [violations |->
                 [acc.violations EXCEPT ![acc.active_violations[key]].duration = @ + 1],
              active_violations |-> acc.active_violations,
              current_violations |-> acc.current_violations \cup {key}]

RECURSIVE check_violations_from(_, _, _, _, _)
check_violations_from(acc, aircraft_list, pairs, k, now) ==
    IF k > Len(pairs) THEN acc
    ELSE check_violations_from(
             check_violation_pair(acc, aircraft_list[pairs[k][1]], aircraft_list[pairs[k][2]], now),
             aircraft_list, pairs, k + 1, now)

\* _check_violations without its "clear resolved violations" loop
check_violations_keeping_resolved(sv, aircraft_list, now) ==
    LET acc == check_violations_from(
                   [violations |-> sv.violations,
                    active_violations |-> sv.active_violations,
                    current_violations |-> {}],
                   aircraft_list, AllPairs(Len(aircraft_list)), 1, now)
    IN  [sv EXCEPT !.violations = acc.violations,
                   !.active_violations = acc.active_violations]

\* SafetyEvaluator._check_violations
check_violations(sv, aircraft_list, now) ==
    LET acc == check_violations_from(
                   [violations |-> sv.violations,
                    active_violations |-> sv.active_violations,
                    current_violations |-> {}],
                   aircraft_list, AllPairs(Len(aircraft_list)), 1, now)
    IN  [sv EXCEPT !.violations = acc.violations,
                   !.active_violations =
                       [key \in acc.current_violations |-> acc.active_violations[key]]]

\* SafetyEvaluator.min_separation_achieved (the property): the least
\* horizontal_separation on record, float('inf') when there is no record
min_separation_achieved(violation_list) ==
    IF Len(violation_list) = 0
    THEN Far
    ELSE CHOOSE m \in {violation_list[k].horizontal_separation : k \in 1..Len(violation_list)} :
             \A k \in 1..Len(violation_list) : m <= violation_list[k].horizontal_separation

\* SafetyEvaluator.calculate_metrics: simulation_duration
simulation_duration(sv) == sv.simulation_end_time - sv.simulation_start_time

\* SafetyEvaluator.calculate_metrics, the fields the report's assessment reads.
\* near_miss_rate = (near_miss_count / total_aircraft) * 100 is kept as the
\* fraction num / den; it is 0.0 when no aircraft has been seen
calculate_metrics(sv) ==
    [simulation_duration |-> simulation_duration(sv),
     total_aircraft |-> Cardinality(sv.total_aircraft_seen),
     violation_count |-> Len(sv.violations),
     near_miss_count |-> Len(sv.near_misses),
     near_miss_rate |->
        IF Cardinality(sv.total_aircraft_seen) > 0
        THEN [num |-> Len(sv.near_misses) * 100, den |-> Cardinality(sv.total_aircraft_seen)]
        ELSE [num |-> 0, den |-> 1]]

\* SafetyEvaluator._calculate_safety_rating
calculate_safety_rating(metrics) ==
    IF metrics.violation_count > 0 THEN "UNSAFE"
    ELSE IF metrics.near_miss_rate.num > 5 * metrics.near_miss_rate.den THEN "MARGINAL"
    ELSE IF metrics.near_miss_rate.num > 2 * metrics.near_miss_rate.den THEN "ACCEPTABLE"
    ELSE "SAFE"

\* SafetyEvaluator.generate_report, THRESHOLD CHECKS: the verdict each of the two
\* lines ends with
threshold_checks(metrics) ==
    [violations |-> IF metrics.violation_count = 0 THEN "PASS" ELSE "FAIL",
     near_miss_rate |->
        IF metrics.near_miss_rate.num < 2 * metrics.near_miss_rate.den THEN "PASS"
        ELSE IF metrics.near_miss_rate.num < 5 * metrics.near_miss_rate.den THEN "WARNING"
        ELSE "FAIL"]

\* the near-miss test without its "if self.airspace.is_separated(ac1, ac2)"
check_near_miss_pair_unguarded(near, ac1, ac2, now) ==
    LET sep == check_separation(ac1, ac2)
        sep_req == standard(avg_altitude2(ac1, ac2))
        h_close == sep.horizontal
                     < ((3 * sep_req.horizontal_nm) \div 2) * ((3 * sep_req.horizontal_nm) \div 2)
        v_close == sep.vertical > 0 /\ 2 * sep.vertical < 3 * sep_req.vertical_ft
    IN  IF h_close \/ v_close
        THEN Append(near, [aircraft1 |-> ac1.callsign, aircraft2 |-> ac2.callsign,
                           timestamp |-> now,
                           horizontal_separation |-> sep.horizontal,
                           vertical_separation |-> sep.vertical])
        ELSE near

\* the near-miss test with the vertical ratio of a level pair taken as 0
check_near_miss_pair_level_is_close(near, ac1, ac2, now) ==
    LET sep == check_separation(ac1, ac2)
        sep_req == standard(avg_altitude2(ac1, ac2))
        h_close == sep.horizontal
                     < ((3 * sep_req.horizontal_nm) \div 2) * ((3 * sep_req.horizontal_nm) \div 2)
        v_close == 2 * sep.vertical < 3 * sep_req.vertical_ft
    IN  IF is_separated(ac1, ac2) /\ (h_close \/ v_close)
        THEN Append(near, [aircraft1 |-> ac1.callsign, aircraft2 |-> ac2.callsign,
                           timestamp |-> now,
                           horizontal_separation |-> sep.horizontal,
                           vertical_separation |-> sep.vertical])
        ELSE near

\* the body of the pair loop of SafetyEvaluator._check_near_misses for one pair:
\* min(h_ratio, v_ratio) < NEAR_MISS_THRESHOLD (1.5), v_ratio infinite when v_sep = 0.
\* The record's min_separation_ratio is not carried: the program never reads it.
check_near_miss_pair(near, ac1, ac2, now) ==
    LET sep == check_separation(ac1, ac2)
        sep_req == standard(avg_altitude2(ac1, ac2))
        h_close == sep.horizontal
                     < ((3 * sep_req.horizontal_nm) \div 2) * ((3 * sep_req.horizontal_nm) \div 2)
        v_close == sep.vertical > 0 /\ 2 * sep.vertical < 3 * sep_req.vertical_ft
    IN  IF is_separated(ac1, ac2) /\ (h_close \/ v_close)
        THEN Append(near, [aircraft1 |-> ac1.callsign, aircraft2 |-> ac2.callsign,
                           timestamp |-> now,
                           horizontal_separation |-> sep.horizontal,
                           vertical_separation |-> sep.vertical])
        ELSE near

RECURSIVE check_near_misses_from(_, _, _, _, _)
check_near_misses_from(near, aircraft_list, pairs, k, now) ==
    IF k > Len(pairs) THEN near
    ELSE check_near_misses_from(
             check_near_miss_pair(near, aircraft_list[pairs[k][1]], aircraft_list[pairs[k][2]], now),
             aircraft_list, pairs, k + 1, now)

\* SafetyEvaluator._check_near_misses
check_near_misses(sv, aircraft_list, now) ==
    [sv EXCEPT !.near_misses =
        check_near_misses_from(@, aircraft_list, AllPairs(Len(aircraft_list)), 1, now)]

\* SafetyEvaluator.update, with atc_system.airspace.conflicts as conflict_list
safety_update(sv, aircraft_list, now, conflict_list) ==
    LET timed == [sv EXCEPT !.simulation_start_time = IF @ = 0 THEN now ELSE @,
                            !.simulation_end_time = now,
                            !.total_aircraft_seen =
                                @ \cup {aircraft_list[i].callsign : i \in 1..Len(aircraft_list)}]
        checked == check_near_misses(check_violations(timed, aircraft_list, now),
                                     aircraft_list, now)
    IN  [checked EXCEPT !.detected_conflicts = @ \o conflict_list]

\* SafetyEvaluator.__init__
EmptyMap == [key \in {} |-> 0]

NewSafetyEvaluator ==
    [violations |-> << >>, active_violations |-> EmptyMap, near_misses |-> << >>,
     detected_conflicts |-> << >>, total_aircraft_seen |-> {},
     simulation_start_time |-> 0, simulation_end_time |-> 0]

\* the SafetyEvaluator held in the variables
SafetyState ==
    [violations |-> violations, active_violations |-> active_violations,
     near_misses |-> near_misses, detected_conflicts |-> detected_conflicts,
     total_aircraft_seen |-> total_aircraft_seen,
     simulation_start_time |-> simulation_start_time,
     simulation_end_time |-> simulation_end_time]

InitSafetyState(sv) ==
    /\ violations = sv.violations
    /\ active_violations = sv.active_violations
    /\ near_misses = sv.near_misses
    /\ detected_conflicts = sv.detected_conflicts
    /\ total_aircraft_seen = sv.total_aircraft_seen
    /\ simulation_start_time = sv.simulation_start_time
    /\ simulation_end_time = sv.simulation_end_time

SetSafetyState(sv) ==
    /\ violations' = sv.violations
    /\ active_violations' = sv.active_violations
    /\ near_misses' = sv.near_misses
    /\ detected_conflicts' = sv.detected_conflicts
    /\ total_aircraft_seen' = sv.total_aircraft_seen
    /\ simulation_start_time' = sv.simulation_start_time
    /\ simulation_end_time' = sv.simulation_end_time

(***************************************************************************)
(* Simulator                                                               *)
(***************************************************************************)
\* bounds of the model
MaxTime == 400

\* the driver's traffic: positions in whole nautical miles, altitudes in feet,
\* headings in degrees
Plane(callsign, x_nm, y_nm, altitude_ft, speed, heading_deg, flight_plan) ==
    Aircraft(callsign, x_nm * NM, y_nm * NM, altitude_ft * FT, speed, heading_deg * DEG,
             flight_plan)

\* Simulator.create_conflict_scenario
ConflictScenario ==
    << Plane("UAL100", 50, 100, 35000, 450, 90, << Waypoint(150 * NM, 100 * NM, 35000 * FT) >>),
       Plane("AAL200", 150, 100, 35000, 450, 270, << Waypoint(50 * NM, 100 * NM, 35000 * FT) >>) >>

\* head-on at 10000 ft, 8 NM apart: a violation begins and ends
CloseHeadOn ==
    << Plane("UAL100", 0, 0, 10000, 450, 90, << >>),
       Plane("AAL200", 8, 0, 10000, 450, 270, << >>) >>

\* three aircraft at 35000 ft: one pair already in violation, two pairs close
ThreeAircraft ==
    << Plane("UAL100", 0, 0, 35000, 450, 90, << >>),
       Plane("AAL200", 4, 0, 35000, 450, 270, << >>),
       Plane("DAL300", 0, 6, 35000, 450, 90, << >>) >>

\* in trail 1200 ft apart, the upper one cleared by its plan to 10600 ft
Trail ==
    << Plane("UAL100", 0, 0, 10000, 300, 0, << >>),
       Plane("AAL200", 0, 0, 11200, 300, 0, << Waypoint(0, 100 * NM, 10600 * FT) >>) >>

\* head-on with a 4 NM lateral offset, 46 NM apart: a conflict more than 180 s away
OffsetHeadOn ==
    << Plane("UAL100", 0, 0, 20000, 450, 90, << >>),
       Plane("AAL200", 46, 4, 20000, 450, 270, << >>) >>

Scenarios == { ConflictScenario, CloseHeadOn, ThreeAircraft, Trail, OffsetHeadOn }

\* 1 / update_frequency: 1 Hz and 0.2 Hz
TimeSteps == {SEC, 5 * SEC}

\* Simulator.get_status
get_status ==
    [current_time |-> current_time,
     num_aircraft |-> Len(aircraft),
     active_conflicts |-> Len(conflicts),
     total_instructions |-> instruction_count,
     violations |-> Len(violations),
     near_misses |-> Len(near_misses)]

\* a step that monitors safety before the controller has run
StageAfterSafetyFirst(s) ==
    CASE s = "update" -> "safety"
      [] s = "safety" -> "detect"
      [] s = "detect" -> "resolve"
      [] s = "resolve" -> "advance"
      [] s = "advance" -> "update"

\* the statements of Simulator.step (and of ATCSystem.update inside it), in order:
\* the stage that runs after stage s
StageAfter(s) ==
    CASE s = "update" -> "detect"
      [] s = "detect" -> "resolve"
      [] s = "resolve" -> "safety"
      [] s = "safety" -> "advance"
      [] s = "advance" -> "update"

\* Simulator.__init__ followed by the driver's add_aircraft calls
Init ==
    /\ aircraft \in Scenarios
    /\ time_step \in TimeSteps
    /\ current_time = 0
    /\ conflicts = << >>
    /\ instructions = << >>
    /\ instruction_count = 0
    /\ InitSafetyState(NewSafetyEvaluator)
    /\ pc = "update"
    /\ call = [op |-> "none"]

\* Simulator.step, first statement: aircraft.update(self.time_step) for every aircraft
StepUpdate ==
    /\ pc = "update"
    /\ current_time < MaxTime
    /\ aircraft' = [i \in 1..Len(aircraft) |-> update(aircraft[i], time_step)]
    /\ pc' = StageAfter("update")
    /\ UNCHANGED <<clockVars, conflicts, atcVars, safetyVars, call>>

\* ATCSystem.update, first statement: self.airspace.detect_conflicts(aircraft_list, 300.0)
StepDetect ==
    /\ pc = "detect"
    /\ conflicts' = detect_conflicts(aircraft, LookaheadTime)
    /\ pc' = StageAfter("detect")
    /\ UNCHANGED <<aircraft, clockVars, atcVars, safetyVars, call>>

\* ATCSystem.update, the loop resolving the conflicts just detected
StepResolve ==
    /\ pc = "resolve"
    /\ \E st \in { resolve_from([aircraft |-> aircraft, instructions |-> instructions,
                                 instruction_count |-> instruction_count],
                                conflicts, 1, Len(conflicts), current_time) } :
           /\ aircraft' = st.aircraft
           /\ instructions' = st.instructions
           /\ instruction_count' = st.instruction_count
    /\ pc' = StageAfter("resolve")
    /\ UNCHANGED <<clockVars, conflicts, safetyVars, call>>

\* Simulator.step: self.safety_evaluator.update(self.aircraft, self.current_time, self.atc_system)
StepSafety ==
    /\ pc = "safety"
    /\ \E sv \in { safety_update(SafetyState, aircraft, current_time, conflicts) } :
          SetSafetyState(sv)
    /\ pc' = StageAfter("safety")
    /\ UNCHANGED <<aircraft, clockVars, conflicts, atcVars, call>>

\* Simulator.step, last statement: self.current_time += self.time_step
StepAdvance ==
    /\ pc = "advance"
    /\ current_time' = current_time + time_step
    /\ pc' = StageAfter("advance")
    /\ UNCHANGED <<aircraft, time_step, conflicts, atcVars, safetyVars, call>>

\* Simulator.remove_aircraft, called by the driver between two steps; the driver
\* takes an aircraft out only while more than one pair is flying
RemoveAircraft ==
    /\ pc = "update"
    /\ Len(aircraft) > 2
    /\ \E callsign \in {aircraft[i].callsign : i \in 1..Len(aircraft)} :
          aircraft' = SelectSeq(aircraft, LAMBDA ac : ac.callsign # callsign)
    /\ UNCHANGED <<clockVars, conflicts, atcVars, safetyVars, pc, call>>

Next ==
    \/ StepUpdate
    \/ StepDetect
    \/ StepResolve
    \/ StepSafety
    \/ StepAdvance
    \/ RemoveAircraft

Spec == Init /\ [][Next]_vars

(***************************************************************************)
(* Properties of the simulator                                             *)
(***************************************************************************)
\* the active SeparationViolation of a pair
ActiveViolation(key) == violations[active_violations[key]]

\* the steps C2_ViolationDuration allows
C2_ViolationDuration_Step ==
    /\ \A key \in DOMAIN active_violations \cap DOMAIN active_violations' :
          ActiveViolation(key)'.duration >= ActiveViolation(key).duration
    /\ pc = "safety" =>
          \A i \in 1..Len(aircraft') : \A j \in (i + 1)..Len(aircraft') :
              is_separated(aircraft'[i], aircraft'[j]) =>
                  pair_key(aircraft'[i].callsign, aircraft'[j].callsign)
                      \notin DOMAIN active_violations'

\* C2: while a pair stays in violation the duration of its active violation never
\* decreases, and at the end of a safety tick no pair that is separated has its
\* key in active_violations
C2_ViolationDuration == [][C2_ViolationDuration_Step]_vars

\* a violation lasted several ticks and ended while both aircraft were still flying
C2_Witness ==
    /\ \E k \in 1..Len(violations) :
          /\ violations[k].duration >= 2
          /\ {violations[k].aircraft1, violations[k].aircraft2}
                \subseteq {aircraft[i].callsign : i \in 1..Len(aircraft)}
    /\ DOMAIN active_violations = {}

\* the pairs with a NearMiss recorded at time now
NearMissPairs(now) ==
    { pair_key(near_misses[k].aircraft1, near_misses[k].aircraft2) :
        k \in { n \in 1..Len(near_misses) : near_misses[n].timestamp = now } }

\* C3: the pairs with a NearMiss timestamped at the tick and the pair-keys in
\* active_violations after the tick are disjoint
C3_NearMissNotViolation ==
    pc = "advance" => NearMissPairs(current_time) \cap DOMAIN active_violations = {}

\* a tick with a near miss of one pair and a violation of another
C3_Witness ==
    /\ pc = "advance"
    /\ NearMissPairs(current_time) # {}
    /\ DOMAIN active_violations # {}

\* the order of the stages of one step
StepOrder ==
    { <<"update", "detect">>, <<"detect", "resolve">>, <<"resolve", "safety">>,
      <<"safety", "advance">>, <<"advance", "update">> }

\* the steps C4_StageOrder allows
C4_StageOrder_Step ==
    /\ pc' # pc => <<pc, pc'>> \in StepOrder
    /\ (\E i \in 1..Len(aircraft) : i <= Len(aircraft')
           /\ aircraft'[i].callsign = aircraft[i].callsign
           /\ aircraft'[i].time_in_simulation # aircraft[i].time_in_simulation)
          => /\ pc = "update" /\ pc' = "detect"
             /\ aircraft' = [i \in 1..Len(aircraft) |-> update(aircraft[i], time_step)]
    /\ conflicts' # conflicts => pc = "detect"
    /\ pc = "detect" => pc' = "resolve" /\ aircraft' = aircraft
    /\ <<instructions, instruction_count>>' # <<instructions, instruction_count>>
          => pc = "resolve"
    /\ pc = "resolve" => pc' = "safety" /\ conflicts' = conflicts
    /\ safetyVars' # safetyVars => pc = "safety"
    /\ pc = "safety" => /\ pc' = "advance"
                        /\ detected_conflicts' = detected_conflicts \o conflicts
                        /\ simulation_end_time' = current_time
                        /\ aircraft' = aircraft
    /\ current_time' # current_time
          => /\ pc = "advance" /\ pc' = "update"
             /\ current_time' = current_time + time_step
             /\ simulation_end_time = current_time
             /\ \A i \in 1..Len(aircraft) :
                   aircraft[i].time_in_simulation = current_time + time_step

\* C4: within every step the stages run in the order kinematic update, detection,
\* resolution, safety monitoring, each on the output of the one before, and the
\* clock is advanced by time_step only after the four of them
C4_StageOrder == [][C4_StageOrder_Step]_vars

\* two whole steps have run and the controller has acted in one of them
C4_Witness ==
    /\ pc = "update"
    /\ current_time >= 2 * time_step
    /\ instructions # << >>
    /\ violations # << >>

\* an aircraft without its pending targets
WithoutTargets(ac) ==
    [ac EXCEPT !.target_altitude = None, !.target_heading = None, !.target_speed = None]

\* the steps C5_OnlyTargets allows
C5_OnlyTargets_Step ==
    pc \in {"detect", "resolve"} =>
      /\ Len(aircraft') = Len(aircraft)
      /\ \A i \in 1..Len(aircraft) :
            WithoutTargets(aircraft'[i]) = WithoutTargets(aircraft[i])

\* C5: detection and resolution change no aircraft's position, altitude, speed,
\* heading or flight-plan cursor, only the pending targets
C5_OnlyTargets == [][C5_OnlyTargets_Step]_vars

\* the controller has just instructed an aircraft, whose target is now pending
C5_Witness ==
    /\ pc = "safety"
    /\ \E k \in 1..Len(instructions) : \E i \in 1..Len(aircraft) :
          /\ instructions[k].timestamp = current_time
          /\ instructions[k].callsign = aircraft[i].callsign
          /\ aircraft[i].target_altitude = instructions[k].parameters.new_altitude
          /\ aircraft[i].altitude # aircraft[i].target_altitude

\* every conflict detected this tick is of severity "low"
AllLow == conflicts # << >> /\ \A k \in 1..Len(conflicts) : conflicts[k].severity = "low"

\* the steps C7_LowNotActedOn allows
C7_LowNotActedOn_Step ==
    (pc = "resolve" /\ AllLow) =>
      /\ instructions' = instructions
      /\ instruction_count' = instruction_count
      /\ aircraft' = aircraft
      /\ conflicts' = conflicts

\* C7: in a tick whose conflicts are all of severity "low" the controller leaves
\* the instruction log, the instruction counter and every pending target
\* unchanged, and the conflicts stay in the conflict list
C7_LowNotActedOn == [][C7_LowNotActedOn_Step]_vars

\* the resolution stage has just run over low conflicts only
C7_Witness ==
    /\ pc = "safety"
    /\ AllLow
    /\ instructions = << >>

\* the conflict is one of aircraft_list as it stands: it names a pair of the list in
\* list order, and its separations are those of the pair's predicted positions at
\* its time to the closest approach
ConflictOf(conflict, aircraft_list) ==
    \E i \in 1..Len(aircraft_list) : \E j \in (i + 1)..Len(aircraft_list) :
        /\ conflict.aircraft1 = aircraft_list[i].callsign
        /\ conflict.aircraft2 = aircraft_list[j].callsign
        /\ conflict.horizontal_separation_at_cpa =
              distance_to(predict_position(aircraft_list[i], conflict.time_to_cpa),
                          predict_position(aircraft_list[j], conflict.time_to_cpa))
        /\ conflict.vertical_separation_at_cpa =
              Abs(aircraft_list[i].altitude - aircraft_list[j].altitude)

\* the steps C11_DetectReplaces allows
C11_DetectReplaces_Step ==
    pc = "detect" =>
      /\ aircraft' = aircraft
      /\ \A k \in 1..Len(conflicts') : ConflictOf(conflicts'[k], aircraft')
      /\ \A k \in 1..Len(conflicts') : \A n \in (k + 1)..Len(conflicts') :
            <<conflicts'[k].aircraft1, conflicts'[k].aircraft2>>
               # <<conflicts'[n].aircraft1, conflicts'[n].aircraft2>>
      /\ detect_conflicts(aircraft', LookaheadTime) = conflicts'

\* C11: detect_conflicts changes no aircraft; the list it leaves in
\* Airspace.conflicts holds conflicts of the aircraft as they now are, one per pair
\* at most, nothing carried over from the list of an earlier call; and a second
\* call on the unchanged aircraft returns that same list
C11_DetectReplaces == [][C11_DetectReplaces_Step]_vars

\* a detection has just replaced the list of the tick before by a different one
C11_Witness ==
    /\ pc = "resolve"
    /\ conflicts # << >>
    /\ detected_conflicts # << >>
    /\ conflicts[1] # detected_conflicts[Len(detected_conflicts)]

(***************************************************************************)
(* One aircraft flown by a driver: Aircraft.update ticks interleaved with   *)
(* set_altitude / set_heading / set_speed                                  *)
(***************************************************************************)
MaxKinTicks == 6
MaxKinCalls == 2

\* the rest of the simulator is not used: it stays as constructed
Unused ==
    /\ current_time = 0
    /\ conflicts = << >>
    /\ instructions = << >>
    /\ instruction_count = 0
    /\ InitSafetyState(NewSafetyEvaluator)
    /\ pc = "update"

KinPlanes ==
    { Plane("UAL100", 0, 0, 10000, 450, 350, << >>),
      Plane("UAL100", 0, 0, 10000, 450, 0, << Waypoint(0, 100 * NM, None) >>),
      Plane("UAL100", 0, 0, 10000, 450, 0, << Waypoint(0, 100 * NM, 10010 * FT) >>),
      Plane("UAL100", 0, 0, 1000, 450, 0, << Waypoint(0, 100 * NM, 995 * FT) >>),
      Plane("UAL100", 0, 0, 45000, 450, 0, << Waypoint(0, 100 * NM, 45005 * FT) >>),
      Plane("UAL100", 0, 0, 12000, 450, 0, << Waypoint(0, 100 * NM, 500 * FT) >>) }

\* 1 / update_frequency: 10 Hz and 1 Hz
KinTimeSteps == {1, SEC}

KinAltitudes == {500 * FT, 10010 * FT, 50000 * FT}
KinHeadings == {10 * DEG, 200 * DEG}
KinSpeeds == {100, 460, 600}

KinInit ==
    /\ \E ac \in KinPlanes : aircraft = << ac >>
    /\ time_step \in KinTimeSteps
    /\ call = [op |-> "none", n |-> 0]
    /\ Unused

\* aircraft.update(time_step)
KinUpdate ==
    /\ aircraft[1].time_in_simulation < MaxKinTicks * time_step
    /\ aircraft' = << update(aircraft[1], time_step) >>
    /\ call' = [call EXCEPT !.op = "update"]
    /\ UNCHANGED <<clockVars, conflicts, atcVars, safetyVars, pc>>

\* aircraft.set_altitude(altitude)
KinSetAltitude ==
    /\ call.n < MaxKinCalls
    /\ \E altitude \in KinAltitudes : aircraft' = << set_altitude(aircraft[1], altitude) >>
    /\ call' = [op |-> "set_altitude", n |-> call.n + 1]
    /\ UNCHANGED <<clockVars, conflicts, atcVars, safetyVars, pc>>

\* aircraft.set_heading(heading)
KinSetHeading ==
    /\ call.n < MaxKinCalls
    /\ \E heading \in KinHeadings : aircraft' = << set_heading(aircraft[1], heading) >>
    /\ call' = [op |-> "set_heading", n |-> call.n + 1]
    /\ UNCHANGED <<clockVars, conflicts, atcVars, safetyVars, pc>>

\* aircraft.set_speed(speed)
KinSetSpeed ==
    /\ call.n < MaxKinCalls
    /\ \E speed \in KinSpeeds : aircraft' = << set_speed(aircraft[1], speed) >>
    /\ call' = [op |-> "set_speed", n |-> call.n + 1]
    /\ UNCHANGED <<clockVars, conflicts, atcVars, safetyVars, pc>>

KinNext ==
    \/ KinUpdate
    \/ KinSetAltitude
    \/ KinSetHeading
    \/ KinSetSpeed

SpecKin == KinInit /\ [][KinNext]_vars

\* C1: after any sequence of updates and instruction applications every
\* aircraft's altitude is in [1000, 45000] ft, its speed in [120, 550] kt and its
\* heading in [0, 360)
C1_StateInRange ==
    \A i \in 1..Len(aircraft) :
        /\ aircraft[i].altitude >= MIN_ALTITUDE /\ aircraft[i].altitude <= MAX_ALTITUDE
        /\ aircraft[i].speed >= MIN_SPEED /\ aircraft[i].speed <= MAX_SPEED
        /\ aircraft[i].heading >= 0 /\ aircraft[i].heading < 360 * DEG

(***************************************************************************)
(* The separation test and the severity grading applied to chosen inputs    *)
(***************************************************************************)
\* altitudes of the first aircraft, vertical and horizontal offsets of the second
PureAltitudes == {10000 * FT, 28001 * FT, 28500 * FT, 29000 * FT, 40000 * FT}
PureVertical == {0, 999 * FT, 1000 * FT, 1999 * FT, 2000 * FT}
\* 4.99 NM, 5 NM along an axis, 5 NM as 3-4-5, just inside it, none, far beyond
PureHorizontal ==
    { <<17964, 0>>, <<5 * NM, 0>>, <<3 * NM, 4 * NM>>, <<3 * NM, 4 * NM - 1>>, <<0, 0>>,
      <<40000, 0>> }

PurePairs ==
    { << Aircraft("UAL100", 0, 0, a, 450, 90 * DEG, << >>),
         Aircraft("AAL200", h[1], h[2], a + sign * v, 450, 270 * DEG, << >>) >> :
        a \in PureAltitudes, v \in PureVertical, h \in PureHorizontal, sign \in {-1, 1} }

\* squared separations at the closest point of approach: 2.49, 2.5, 3.74, 3.75, 4.99 NM
PureSeparations == {8964 * 8964, 9000 * 9000, 13464 * 13464, 13500 * 13500, 17964 * 17964}
PureTimes == {0, 59, 60, 179, 180, 299}

PureInit ==
    /\ aircraft \in PurePairs
    /\ time_step = SEC
    /\ call = [op |-> "none"]
    /\ Unused

\* airspace.is_separated(aircraft[first], aircraft[second])
PureIsSeparated ==
    /\ \E first \in 1..2 :
          call' = [op |-> "is_separated", first |-> first, second |-> 3 - first,
                   result |-> is_separated(aircraft[first], aircraft[3 - first])]
    /\ UNCHANGED <<aircraft, clockVars, conflicts, atcVars, safetyVars, pc>>

\* airspace._calculate_severity(h_sep, v_sep, time_to_cpa, sep_req) for the pair
PureSeverity ==
    /\ \E h_sep \in PureSeparations, time_to_cpa \in PureTimes :
          call' = [op |-> "calculate_severity", h_sep |-> h_sep, time_to_cpa |-> time_to_cpa,
                   result |-> calculate_severity(h_sep,
                                  vertical_separation(aircraft[1], aircraft[2]), time_to_cpa,
                                  standard(avg_altitude2(aircraft[1], aircraft[2])))]
    /\ UNCHANGED <<aircraft, clockVars, conflicts, atcVars, safetyVars, pc>>

PureNext ==
    \/ PureIsSeparated
    \/ PureSeverity

SpecPure == PureInit /\ [][PureNext]_vars

\* the pair's horizontal distance squared, and the 5 NM it is held against
HorizontalSquared ==
    (aircraft[1].x - aircraft[2].x) * (aircraft[1].x - aircraft[2].x)
      + (aircraft[1].y - aircraft[2].y) * (aircraft[1].y - aircraft[2].y)
RequiredHorizontalSquared == (5 * NM) * (5 * NM)

\* the vertical requirement: 1000 ft when the average altitude is below 29000 ft
RequiredVertical ==
    IF aircraft[1].altitude + aircraft[2].altitude < 2 * 29000 * FT
    THEN 1000 * FT ELSE 2000 * FT

VerticalBetween == Abs(aircraft[1].altitude - aircraft[2].altitude)

\* C8: is_separated is true iff the horizontal distance is at least 5 NM or the
\* vertical separation at least 1000 ft (average altitude below 29000 ft) or
\* 2000 ft (otherwise), the comparisons inclusive
C8_IsSeparated ==
    call.op = "is_separated" =>
        (call.result <=> (HorizontalSquared >= RequiredHorizontalSquared
                            \/ VerticalBetween >= RequiredVertical))

\* a pair exactly 5 NM and 1000 ft apart below 29000 ft is found separated
C8_Witness ==
    /\ call.op = "is_separated"
    /\ HorizontalSquared = RequiredHorizontalSquared
    /\ VerticalBetween = 1000 * FT
    /\ aircraft[1].altitude + aircraft[2].altitude < 2 * 29000 * FT
    /\ call.result = TRUE

\* C9: is_separated(a, b) equals is_separated(b, a)
C9_Symmetric ==
    call.op = "is_separated" =>
        call.result = is_separated(aircraft[call.second], aircraft[call.first])

\* a pair whose two altitudes lie on either side of 29000 ft, 1000 ft apart and
\* closer than 5 NM, tested with the lower aircraft first
C9_Witness ==
    /\ call.op = "is_separated"
    /\ aircraft[call.first].altitude < 29000 * FT
    /\ aircraft[call.second].altitude > 29000 * FT
    /\ VerticalBetween = 1000 * FT
    /\ HorizontalSquared < RequiredHorizontalSquared

SeverityRank(severity) ==
    CASE severity = "low" -> 1
      [] severity = "medium" -> 2
      [] severity = "high" -> 3

\* C10: with low < medium < high and the requirement fixed, a separation and a
\* time to the closest approach that are both no larger give a severity that is
\* no lower
C10_SeverityMonotonic ==
    call.op = "calculate_severity" =>
        \A h_sep \in PureSeparations, time_to_cpa \in PureTimes :
            (h_sep <= call.h_sep /\ time_to_cpa <= call.time_to_cpa) =>
                SeverityRank(calculate_severity(h_sep,
                                 vertical_separation(aircraft[1], aircraft[2]), time_to_cpa,
                                 standard(avg_altitude2(aircraft[1], aircraft[2]))))
                  >= SeverityRank(call.result)

\* a conflict graded medium that a smaller separation grades high
C10_Witness ==
    /\ call.op = "calculate_severity"
    /\ call.result = "medium"
    /\ call.time_to_cpa >= 60
    /\ \E h_sep \in PureSeparations :
          /\ h_sep < call.h_sep
          /\ calculate_severity(h_sep, vertical_separation(aircraft[1], aircraft[2]),
                                call.time_to_cpa,
                                standard(avg_altitude2(aircraft[1], aircraft[2]))) = "high"

(***************************************************************************)
(* The controller alone: a driver calls ATCSystem.update(aircraft_list,      *)
(* current_time) on traffic that holds its formation                       *)
(***************************************************************************)
MaxATCTime == 410

Newcomers ==
    << "N01", "N02", "N03", "N04", "N05", "N06", "N07", "N08", "N09", "N10",
       "N11", "N12", "N13", "N14", "N15", "N16", "N17", "N18", "N19", "N20" >>

\* all at 35000 ft, eastbound at 450 kt: UAL100 with AAL200 3 NM ahead of it, the
\* newcomers 1 NM behind it, and DAL300 7 NM ahead (4 NM ahead of AAL200)
Fleet ==
    << Plane("UAL100", 0, 0, 35000, 450, 90, << >>),
       Plane("AAL200", 3, 0, 35000, 450, 90, << >>) >>
    \o [k \in 1..Len(Newcomers) |-> Plane(Newcomers[k], -1, 0, 35000, 450, 90, << >>)]
    \o << Plane("DAL300", 7, 0, 35000, 450, 90, << >>) >>

\* the aircraft lists the driver hands in, as positions in the fleet
PairLists == { <<1, 2>>, <<Len(Fleet), 2>>, <<2, Len(Fleet)>> }
FullList == [k \in 1..Len(Fleet) |-> k]

\* the driver hands in a pair, or the whole fleet as its first call
ATCLists == PairLists \cup (IF instructions = << >> THEN {FullList} ELSE {})

\* seconds the driver lets pass between two calls
ATCWaits == {20, 41}

ATCInit ==
    /\ aircraft = Fleet
    /\ time_step = SEC
    /\ current_time = 0
    /\ conflicts = << >>
    /\ instructions = << >>
    /\ instruction_count = 0
    /\ InitSafetyState(NewSafetyEvaluator)
    /\ pc = "update"
    /\ call = [op |-> "none"]

\* ATCSystem.update(aircraft_list, current_time) for the aircraft at the positions
\* the driver lists
ATCUpdate ==
    \E list \in ATCLists :
    \E aircraft_list \in { [k \in 1..Len(list) |-> aircraft[list[k]]] } :
    \E detected \in { detect_conflicts(aircraft_list, LookaheadTime) } :
    \E st \in { resolve_from([aircraft |-> aircraft_list, instructions |-> instructions,
                              instruction_count |-> instruction_count],
                             detected, 1, Len(detected), current_time) } :
        /\ conflicts' = detected
        /\ aircraft' = [i \in 1..Len(aircraft) |->
                           IF \E k \in 1..Len(list) : list[k] = i
                           THEN st.aircraft[CHOOSE k \in 1..Len(list) : list[k] = i]
                           ELSE aircraft[i]]
        /\ instructions' = st.instructions
        /\ instruction_count' = st.instruction_count
        /\ call' = [op |-> "update", list |-> list]
        /\ UNCHANGED <<clockVars, safetyVars, pc>>

\* time passes between two calls
ATCWait ==
    /\ \E wait \in ATCWaits :
          /\ current_time + wait * SEC <= MaxATCTime
          /\ current_time' = current_time + wait * SEC
    /\ call' = [op |-> "wait"]
    /\ UNCHANGED <<aircraft, time_step, conflicts, atcVars, safetyVars, pc>>

ATCNext ==
    \/ ATCUpdate
    \/ ATCWait

SpecATC == ATCInit /\ [][ATCNext]_vars

\* the conflicts the policy is asked about: ordered pairs of UAL100, AAL200, the
\* first and the last newcomer and DAL300, at the current time or some seconds on
TestPositions == {1, 2, 3, Len(Fleet) - 1, Len(Fleet)}
TestWaits == {0, 20, 41, 60, 61}

\* some instruction among the 20 most recently logged is at most 60 s old at time
\* now and addressed to one of the two callsigns
AddressedWithinWindow(callsign1, callsign2, now) ==
    \E k \in 1..Len(instructions) :
        /\ k > Len(instructions) - 20
        /\ now - instructions[k].timestamp <= 60 * SEC
        /\ instructions[k].callsign \in {callsign1, callsign2}

\* C6: resolving a conflict at time T issues no instruction iff some instruction
\* among the 20 most recently logged has T - timestamp <= 60 and is addressed to
\* either callsign; the newest-first scan that stops at the first instruction
\* older than the window answers the same
C6_Cooldown ==
    \A i \in TestPositions, j \in TestPositions, wait \in TestWaits :
        LET now == current_time + wait * SEC
            conflict == [aircraft1 |-> aircraft[i].callsign, aircraft2 |-> aircraft[j].callsign,
                         time_to_cpa |-> 0, horizontal_separation_at_cpa |-> 0,
                         vertical_separation_at_cpa |-> 0, severity |-> "high"]
            after == resolve_conflict([aircraft |-> aircraft, instructions |-> instructions,
                                       instruction_count |-> instruction_count],
                                      conflict, now)
        IN  i # j =>
            /\ (after.instructions = instructions)
                 <=> AddressedWithinWindow(conflict.aircraft1, conflict.aircraft2, now)
            /\ recently_instructed(instructions, conflict.aircraft1, conflict.aircraft2,
                                   now, 60 * SEC)
                 <=> AddressedWithinWindow(conflict.aircraft1, conflict.aircraft2, now)

\* AAL200 was instructed, twenty instructions followed within the window, and the
\* policy then instructed DAL300 for its conflict with AAL200
C6_Witness ==
    /\ Len(instructions) > 21
    /\ instructions[1].callsign = "AAL200"
    /\ instructions[22].callsign = "DAL300"
    /\ instructions[22].timestamp = instructions[1].timestamp
    /\ \E k \in 1..Len(instructions) :
          /\ instructions[k].timestamp < current_time
          /\ instructions[k].timestamp + 60 * SEC >= current_time

(***************************************************************************)
(* One aircraft flying towards the targets it was given: Aircraft.update   *)
(* ticks only, at several update frequencies                               *)
(***************************************************************************)
MaxFlyTicks == 40

\* 1 / update_frequency: 10 Hz, 0.3 s, 1 Hz and 0.2 Hz
FlyTimeSteps == {1, 3, SEC, 5 * SEC}

\* headings flown, in degrees, and headings instructed, in heading units
FlyHeadings == {0, 10, 170, 350}
FlyTargetHeadings == {0, 10 * DEG, 104, 180 * DEG, 190 * DEG, 350 * DEG}
\* altitudes instructed, relative to 10000 ft
FlyClimbs == {-100 * FT, -10 * FT, -9 * FT, 9 * FT, 10 * FT, 11 * FT, 100 * FT}
FlyTargetSpeeds == {100, 445, 460, 600}

\* the aircraft as the driver built and instructed them
FlyPlanes ==
    { set_heading(Plane("UAL100", 0, 0, 10000, 450, h, << >>), t) :
        h \in FlyHeadings, t \in FlyTargetHeadings }
    \cup { set_altitude(Plane("UAL100", 0, 0, 10000, 450, 0, << >>), 10000 * FT + d) :
             d \in FlyClimbs }
    \cup { set_speed(Plane("UAL100", 0, 0, 10000, 450, 0, << >>), v) : v \in FlyTargetSpeeds }
    \cup { Plane("UAL100", 0, 0, 10000, 450, 0, << Waypoint(0, 100 * NM, 10010 * FT) >>),
           Plane("UAL100", 0, 0, 10000, 450, 0, << Waypoint(3 * NM, 4 * NM, None) >>),
           Plane("UAL100", 0, 0, 1100, 450, 0, << Waypoint(0, 100 * NM, 500 * FT) >>) }

FlyInit ==
    /\ \E ac \in FlyPlanes : aircraft = << ac >>
    /\ time_step \in FlyTimeSteps
    /\ call = [op |-> "none"]
    /\ Unused

\* aircraft.update(time_step)
FlyUpdate ==
    /\ aircraft[1].time_in_simulation < MaxFlyTicks * time_step
    /\ aircraft' = << update(aircraft[1], time_step) >>
    /\ call' = [op |-> "update"]
    /\ UNCHANGED <<clockVars, conflicts, atcVars, safetyVars, pc>>

FlyNext == FlyUpdate

SpecFly == FlyInit /\ [][FlyNext]_vars

\* the signed angle from one heading to another, in [-180, 180) degrees
SignedArc(from, to) == ((to - from + 180 * DEG) % (360 * DEG)) - 180 * DEG

\* the turn a tick of time_step may make: 3 degrees per second
TurnLimit == (3 * DEG * time_step) \div SEC

\* a tick of an aircraft with a pending target heading
HeadingTick ==
    /\ aircraft[1].target_heading # None
    /\ aircraft'[1].time_in_simulation # aircraft[1].time_in_simulation

\* the tick turns by `turned` along the shorter arc to the target, not beyond it;
\* from 10 towards 350 degrees that is a turn to the left, through 0
TurnsAlongShorterArc(turned) ==
    /\ Abs(SignedArc(aircraft'[1].heading, aircraft[1].target_heading))
          = Abs(SignedArc(aircraft[1].heading, aircraft[1].target_heading)) - Abs(turned)
    /\ aircraft[1].heading # aircraft[1].target_heading => turned # 0
    /\ (aircraft[1].heading = 10 * DEG /\ aircraft[1].target_heading = 350 * DEG)
          => turned < 0

\* the steps C12_ShorterArcWithinRate allows
C12_ShorterArcWithinRate_Step ==
    HeadingTick =>
      /\ TurnsAlongShorterArc(SignedArc(aircraft[1].heading, aircraft'[1].heading))
      /\ Abs(SignedArc(aircraft[1].heading, aircraft'[1].heading)) <= TurnLimit

\* C12 as stated: a tick with a pending target heading turns the heading along the
\* shorter arc to the target, by at most 3 degrees times the time step and never
\* beyond the target; from 10 towards 350 degrees the heading decreases
C12_ShorterArcWithinRate == [][C12_ShorterArcWithinRate_Step]_vars

\* the steps C12_ShorterArc allows
C12_ShorterArc_Step ==
    HeadingTick =>
      /\ TurnsAlongShorterArc(SignedArc(aircraft[1].heading, aircraft'[1].heading))
      /\ \/ Abs(SignedArc(aircraft[1].heading, aircraft'[1].heading)) <= TurnLimit
         \/ /\ 2 * Abs(SignedArc(aircraft[1].heading, aircraft[1].target_heading)) < DEG
            /\ aircraft'[1].heading = aircraft[1].target_heading
            /\ aircraft'[1].target_heading = None

\* C12 amended: a tick with a pending target heading turns the heading along the
\* shorter arc to the target and never beyond it, by at most 3 degrees times the
\* time step unless the target is less than 0.5 degrees away, when the heading
\* takes the target's value at once; from 10 towards 350 degrees it decreases
C12_ShorterArc == [][C12_ShorterArc_Step]_vars

\* the first tick of 1 s from 10 towards 350 degrees has turned the aircraft to 7
C12_Witness ==
    /\ call.op = "update"
    /\ time_step = SEC
    /\ aircraft[1].time_in_simulation = SEC
    /\ aircraft[1].heading = 7 * DEG
    /\ aircraft[1].target_heading = 350 * DEG

\* a tick of an aircraft whose pending target altitude is d above its altitude
AltitudeTick(d) ==
    /\ aircraft[1].target_altitude # None
    /\ aircraft[1].target_altitude - aircraft[1].altitude = d
    /\ aircraft'[1].time_in_simulation # aircraft[1].time_in_simulation

\* the tick puts the aircraft at its target altitude and clears the target
SnapsToAltitude ==
    /\ aircraft'[1].altitude = aircraft[1].target_altitude
    /\ aircraft'[1].target_altitude = None

\* the climb a tick of time_step may make: 2000 ft per minute
ClimbLimit == (2000 * FT * time_step) \div (60 * SEC)

\* the steps C13_SnapsAtTenFeet allows
C13_SnapsAtTenFeet_Step == AltitudeTick(10 * FT) => SnapsToAltitude

\* C13 as stated: an aircraft whose pending target altitude is 10 ft above its
\* altitude is at the target, the target cleared, after one tick of any time step
C13_SnapsAtTenFeet == [][C13_SnapsAtTenFeet_Step]_vars

\* the steps C13_SnapsWithinTenFeet allows
C13_SnapsWithinTenFeet_Step ==
    /\ \A d \in 1..(10 * FT - 1) : AltitudeTick(d) => SnapsToAltitude
    /\ AltitudeTick(10 * FT) =>
          IF ClimbLimit >= 10 * FT
          THEN SnapsToAltitude
          ELSE /\ aircraft'[1].altitude = aircraft[1].altitude + ClimbLimit
               /\ aircraft'[1].target_altitude = aircraft[1].target_altitude

\* C13 amended: an aircraft whose pending target altitude is less than 10 ft above
\* its altitude is at the target, the target cleared, after one tick of any time
\* step; at exactly 10 ft it is so only when the tick's climb, 2000 ft/min times
\* the time step, reaches 10 ft (a time step of 0.3 s or more), and otherwise it
\* climbs by that much and keeps its target
C13_SnapsWithinTenFeet == [][C13_SnapsWithinTenFeet_Step]_vars

\* a tick of 0.1 s, which climbs 3.3 ft, has put the aircraft on a target 9 ft above
C13_Witness ==
    /\ call.op = "update"
    /\ time_step = 1
    /\ aircraft[1].time_in_simulation = 1
    /\ aircraft[1].altitude = 10009 * FT
    /\ aircraft[1].target_altitude = None
    /\ aircraft[1].flight_plan = << >>

(***************************************************************************)
(* The head-on scenario run by Simulator.run: whole steps at 1 Hz, one      *)
(* after the other                                                         *)
(***************************************************************************)
MaxHeadOnTime == 4000

HeadOnInit ==
    /\ aircraft = ConflictScenario
    /\ time_step = SEC
    /\ current_time = 0
    /\ conflicts = << >>
    /\ instructions = << >>
    /\ instruction_count = 0
    /\ InitSafetyState(NewSafetyEvaluator)
    /\ pc = "update"
    /\ call = [op |-> "none"]

\* Simulator.step as a whole: the kinematic update of every aircraft,
\* ATCSystem.update (detection, then resolution), SafetyEvaluator.update, and the
\* advance of the clock
HeadOnStep ==
    /\ current_time < MaxHeadOnTime
    /\ \E updated \in { [i \in 1..Len(aircraft) |-> update(aircraft[i], time_step)] } :
       \E detected \in { detect_conflicts(updated, LookaheadTime) } :
       \E st \in { resolve_from([aircraft |-> updated, instructions |-> instructions,
                                 instruction_count |-> instruction_count],
                                detected, 1, Len(detected), current_time) } :
       \E sv \in { safety_update(SafetyState, st.aircraft, current_time, detected) } :
           /\ aircraft' = st.aircraft
           /\ conflicts' = detected
           /\ instructions' = st.instructions
           /\ instruction_count' = st.instruction_count
           /\ SetSafetyState(sv)
    /\ current_time' = current_time + time_step
    /\ call' = [op |-> "step"]
    /\ UNCHANGED <<time_step, pc>>

HeadOnNext == HeadOnStep

\* Simulator.run calls step until the duration, MaxHeadOnTime, has passed
SpecHeadOn == HeadOnInit /\ [][HeadOnNext]_vars

\* Simulator.run has returned
HeadOnRunOver == current_time >= MaxHeadOnTime

\* the conflicts detected in the last step for UAL100 and AAL200
HeadOnConflicts ==
    { k \in 1..Len(conflicts) :
        {conflicts[k].aircraft1, conflicts[k].aircraft2} = {"UAL100", "AAL200"} }

\* a conflict of the pair was detected in some step of the run (the safety monitor
\* keeps every step's conflicts), its separation at the closest approach under 5 NM
HeadOnDetected ==
    \E k \in 1..Len(detected_conflicts) :
        /\ {detected_conflicts[k].aircraft1, detected_conflicts[k].aircraft2}
              = {"UAL100", "AAL200"}
        /\ detected_conflicts[k].horizontal_separation_at_cpa < NMsq(5, 1)

\* every conflict of the pair closer than 60 s to its closest approach is "high"
HeadOnImminentIsHigh ==
    \A k \in HeadOnConflicts : conflicts[k].time_to_cpa < 60 => conflicts[k].severity = "high"

\* C14: in the head-on scenario, run for the 400 s the two aircraft take to meet, a
\* conflict of the pair has been detected by the end of the run, with a horizontal
\* separation at the closest approach under 5 NM, and whenever the conflict
\* detected is less than 60 s from the closest approach it is "high"
C14_HeadOn ==
    /\ HeadOnRunOver => HeadOnDetected
    /\ HeadOnImminentIsHigh

\* the pair is detected in conflict less than 60 s before its closest approach
C14_Witness ==
    \E k \in HeadOnConflicts :
        /\ conflicts[k].time_to_cpa < 60
        /\ conflicts[k].horizontal_separation_at_cpa < NMsq(5, 1)
        /\ conflicts[k].severity = "high"

(***************************************************************************)
(* Small fleets: whole steps on no aircraft, one aircraft or a pair, the   *)
(* driver removing aircraft and asking the controller to resolve a conflict *)
(* of the list Airspace.conflicts holds                                    *)
(***************************************************************************)
MaxSmallTime == 30

SmallFleets ==
    { << >>,
      << Plane("UAL100", 0, 0, 10000, 450, 90, << >>) >>,
      CloseHeadOn,
      OffsetHeadOn }

SmallInit ==
    /\ aircraft \in SmallFleets
    /\ time_step = SEC
    /\ current_time = 0
    /\ conflicts = << >>
    /\ instructions = << >>
    /\ instruction_count = 0
    /\ InitSafetyState(NewSafetyEvaluator)
    /\ pc = "update"
    /\ call = [op |-> "none"]

\* Simulator.step as a whole
SmallStep ==
    /\ current_time < MaxSmallTime
    /\ \E updated \in { [i \in 1..Len(aircraft) |-> update(aircraft[i], time_step)] } :
       \E detected \in { detect_conflicts(updated, LookaheadTime) } :
       \E st \in { resolve_from([aircraft |-> updated, instructions |-> instructions,
                                 instruction_count |-> instruction_count],
                                detected, 1, Len(detected), current_time) } :
       \E sv \in { safety_update(SafetyState, st.aircraft, current_time, detected) } :
           /\ aircraft' = st.aircraft
           /\ conflicts' = detected
           /\ instructions' = st.instructions
           /\ instruction_count' = st.instruction_count
           /\ SetSafetyState(sv)
    /\ current_time' = current_time + time_step
    /\ call' = [op |-> "step"]
    /\ UNCHANGED <<time_step, pc>>

\* Simulator.remove_aircraft(callsign)
SmallRemove ==
    /\ \E callsign \in {aircraft[i].callsign : i \in 1..Len(aircraft)} :
          /\ aircraft' = SelectSeq(aircraft, LAMBDA ac : ac.callsign # callsign)
          /\ call' = [op |-> "remove_aircraft", callsign |-> callsign]
    /\ UNCHANGED <<clockVars, conflicts, atcVars, safetyVars, pc>>

\* ATCSystem._resolve_conflict(conflict, aircraft, current_time) for a conflict of
\* Airspace.conflicts
SmallResolve ==
    /\ \E k \in 1..Len(conflicts) :
       \E st \in { resolve_conflict([aircraft |-> aircraft, instructions |-> instructions,
                                     instruction_count |-> instruction_count],
                                    conflicts[k], current_time) } :
           /\ aircraft' = st.aircraft
           /\ instructions' = st.instructions
           /\ instruction_count' = st.instruction_count
           /\ call' = [op |-> "resolve_conflict", conflict |-> conflicts[k]]
    /\ UNCHANGED <<clockVars, conflicts, safetyVars, pc>>

SmallNext ==
    \/ SmallStep
    \/ SmallRemove
    \/ SmallResolve

SpecSmall == SmallInit /\ [][SmallNext]_vars

\* the conflict names a callsign that no aircraft of the list bears
NamesMissing(conflict, aircraft_list) ==
    {conflict.aircraft1, conflict.aircraft2}
       \ {aircraft_list[i].callsign : i \in 1..Len(aircraft_list)} # {}

\* the steps C15_DegenerateInput allows
C15_DegenerateInput_Step ==
    /\ (current_time' # current_time /\ Len(aircraft) <= 1) =>
          /\ conflicts' = << >>
          /\ violations' = violations
          /\ DOMAIN active_violations' = {}
          /\ near_misses' = near_misses
          /\ instructions' = instructions
          /\ instruction_count' = instruction_count
    /\ (call' # call /\ call'.op = "resolve_conflict"
          /\ NamesMissing(call'.conflict, aircraft)) =>
          /\ instructions' = instructions
          /\ instruction_count' = instruction_count
          /\ aircraft' = aircraft

\* C15: a step on an empty or single-element aircraft list leaves an empty conflict
\* list and adds no violation, no near miss and no instruction; resolving a
\* conflict that names a callsign not in the aircraft list leaves the instruction
\* log, the counter and every aircraft unchanged
C15_DegenerateInput == [][C15_DegenerateInput_Step]_vars

\* the controller was asked about a conflict whose second aircraft had been
\* removed, which left one aircraft, never instructed
C15_Witness ==
    /\ call.op = "resolve_conflict"
    /\ NamesMissing(call.conflict, aircraft)
    /\ Len(aircraft) = 1
    /\ aircraft[1].callsign = call.conflict.aircraft1
    /\ instructions = << >>

(***************************************************************************)
(* Convergence of the kinematic update (checked on SpecFly)                *)
(***************************************************************************)
\* a tick of SpecFly
FlyTick == aircraft'[1].time_in_simulation # aircraft[1].time_in_simulation

\* the tick reaches the pending target and clears it, or brings the value strictly
\* closer to it and keeps it
ComesCloser(value, target, value_after, target_after) ==
    \/ value_after = target /\ target_after = None
    \/ target_after = target /\ Abs(target - value_after) < Abs(target - value)

\* the steps C16_Converges allows
C16_Converges_Step ==
    FlyTick =>
      /\ aircraft[1].target_altitude # None =>
            ComesCloser(aircraft[1].altitude, aircraft[1].target_altitude,
                        aircraft'[1].altitude, aircraft'[1].target_altitude)
      /\ aircraft[1].target_speed # None =>
            ComesCloser(aircraft[1].speed, aircraft[1].target_speed,
                        aircraft'[1].speed, aircraft'[1].target_speed)
      /\ aircraft[1].target_heading # None =>
            \/ /\ aircraft'[1].heading = aircraft[1].target_heading
               /\ aircraft'[1].target_heading = None
            \/ /\ aircraft'[1].target_heading = aircraft[1].target_heading
               /\ Abs(SignedArc(aircraft'[1].heading, aircraft[1].target_heading))
                     < Abs(SignedArc(aircraft[1].heading, aircraft[1].target_heading))

\* C16: every pending target, instructed or adopted from the flight plan, is
\* reached and cleared after finitely many ticks: each tick of an aircraft with a
\* pending altitude, speed or heading target either reaches the target and clears
\* it or leaves the value strictly closer to it than it was
C16_Converges == [][C16_Converges_Step]_vars

(***************************************************************************)
(* The resolution policy on one pair: a driver calls ATCSystem.update,      *)
(* ATCSystem._resolve_conflict for a conflict of its own making and         *)
(* ATCSystem._issue_instruction for an instruction of its own making        *)
(***************************************************************************)
\* UAL100 with AAL200 3 NM ahead, at 450 kt
PolicyPair(altitude1_ft, heading1_deg, altitude2_ft, heading2_deg) ==
    << Plane("UAL100", 0, 0, altitude1_ft, 450, heading1_deg, << >>),
       Plane("AAL200", 3, 0, altitude2_ft, 450, heading2_deg, << >>) >>

\* level pairs, pairs too low to go down, a pair on either side of 29000 ft, and
\* pairs with neither room below the lower nor above the higher aircraft
PolicyFleets ==
    { PolicyPair(10000, 90, 10000, 90),
      PolicyPair(2500, 90, 2500, 90),
      PolicyPair(2000, 90, 2900, 90),
      PolicyPair(30000, 90, 29000, 90),
      PolicyPair(1500, 350, 44000, 90),
      PolicyPair(44000, 90, 1500, 350) }

PolicySeverities == {"high", "medium", "low"}

\* the simulation time at which the driver makes its calls
PolicyTimes == {0, 75 * SEC}

\* the instructions the driver makes up: [instruction_type, parameters]
PolicyInstructions ==
    { [instruction_type |-> "altitude_change", parameters |-> [new_altitude |-> a, rate |-> "normal"]] :
        a \in {500 * FT, 50000 * FT} }
    \cup { [instruction_type |-> "heading_change", parameters |-> [new_heading |-> h]] :
             h \in {-10 * DEG, 370 * DEG} }
    \cup { [instruction_type |-> "speed_change", parameters |-> [new_speed |-> v]] :
             v \in {100, 600} }

PolicyInit ==
    /\ aircraft \in PolicyFleets
    /\ time_step = SEC
    /\ current_time \in PolicyTimes
    /\ conflicts = << >>
    /\ instructions = << >>
    /\ instruction_count = 0
    /\ InitSafetyState(NewSafetyEvaluator)
    /\ pc = "update"
    /\ call = [op |-> "none"]

\* ATCSystem.update(aircraft, current_time)
PolicyUpdate ==
    /\ \E detected \in { detect_conflicts(aircraft, LookaheadTime) } :
       \E st \in { resolve_from([aircraft |-> aircraft, instructions |-> instructions,
                                 instruction_count |-> instruction_count],
                                detected, 1, Len(detected), current_time) } :
           /\ conflicts' = detected
           /\ aircraft' = st.aircraft
           /\ instructions' = st.instructions
           /\ instruction_count' = st.instruction_count
    /\ call' = [op |-> "update"]
    /\ UNCHANGED <<clockVars, safetyVars, pc>>

\* ATCSystem._resolve_conflict(Conflict(...), aircraft, current_time)
PolicyResolve ==
    /\ \E first \in 1..Len(aircraft), second \in 1..Len(aircraft), severity \in PolicySeverities :
       \E conflict \in { [aircraft1 |-> aircraft[first].callsign,
                          aircraft2 |-> aircraft[second].callsign,
                          time_to_cpa |-> 0, horizontal_separation_at_cpa |-> 0,
                          vertical_separation_at_cpa |-> 0, severity |-> severity] } :
       \E st \in { resolve_conflict([aircraft |-> aircraft, instructions |-> instructions,
                                     instruction_count |-> instruction_count],
                                    conflict, current_time) } :
           /\ first # second
           /\ aircraft' = st.aircraft
           /\ instructions' = st.instructions
           /\ instruction_count' = st.instruction_count
           /\ call' = [op |-> "resolve_conflict", conflict |-> conflict]
    /\ UNCHANGED <<clockVars, conflicts, safetyVars, pc>>

\* ATCSystem._issue_instruction(ATCInstruction(...), aircraft[idx]); the driver
\* makes up one instruction in a run
PolicyIssue ==
    /\ \A k \in 1..Len(instructions) : instructions[k].reason # "driver"
    /\ \E idx \in 1..Len(aircraft), made \in PolicyInstructions :
       \E st \in { issue_instruction([aircraft |-> aircraft, instructions |-> instructions,
                                      instruction_count |-> instruction_count],
                                     [ATCInstruction(aircraft[idx].callsign, current_time,
                                                     made.instruction_type, made.parameters,
                                                     "low")
                                        EXCEPT !.reason = "driver"],
                                     idx) } :
           /\ aircraft' = st.aircraft
           /\ instructions' = st.instructions
           /\ instruction_count' = st.instruction_count
    /\ call' = [op |-> "issue_instruction"]
    /\ UNCHANGED <<clockVars, conflicts, safetyVars, pc>>

PolicyNext ==
    \/ PolicyUpdate
    \/ PolicyResolve
    \/ PolicyIssue

SpecPolicy == PolicyInit /\ [][PolicyNext]_vars

\* the aircraft with the given callsign
PlaneNamed(callsign) ==
    aircraft[CHOOSE i \in 1..Len(aircraft) : aircraft[i].callsign = callsign]

\* the records the step has added to the log
Issued == SubSeq(instructions', Len(instructions) + 1, Len(instructions'))

\* the conflicts of severity high or medium that the step resolves: the one of the
\* driver's call of _resolve_conflict, or those ATCSystem.update has detected
PolicyResolved ==
    IF call'.op = "resolve_conflict"
    THEN {c \in {call'.conflict} : c.severity \in {"high", "medium"}}
    ELSE IF call'.op = "update"
    THEN {c \in {conflicts'[k] : k \in 1..Len(conflicts')} : c.severity \in {"high", "medium"}}
    ELSE {}

\* what the log record says of an instruction to change altitude
AltitudeRecord(callsign, new_altitude, priority) ==
    [callsign |-> callsign, instruction_type |-> "altitude_change",
     new_altitude |-> new_altitude, priority |-> priority]

AltitudeRecordOf(instruction) ==
    IF instruction.instruction_type = "altitude_change"
    THEN AltitudeRecord(instruction.callsign, instruction.parameters.new_altitude,
                        instruction.priority)
    ELSE [callsign |-> instruction.callsign, instruction_type |-> instruction.instruction_type]

C17_AltitudeRule_Step ==
    \A conflict \in PolicyResolved :
            LET first == PlaneNamed(conflict.aircraft1)
                second == PlaneNamed(conflict.aircraft2)
                lower == IF first.altitude < second.altitude THEN first ELSE second
                higher == IF first.altitude < second.altitude THEN second ELSE first
                required_vertical ==
                    IF first.altitude + second.altitude < 58000 * FT
                    THEN 1000 * FT ELSE 2000 * FT
                down == lower.altitude - required_vertical - 1000 * FT
                up == higher.altitude + required_vertical + 1000 * FT
                priority == IF conflict.severity = "high" THEN "high" ELSE "medium"
            IN  /\ Len(instructions') <= Len(instructions) + 1
                /\ ~AddressedWithinWindow(conflict.aircraft1, conflict.aircraft2, current_time) =>
                      /\ Len(Issued) = 1
                      /\ down >= 1000 * FT =>
                            AltitudeRecordOf(Issued[1])
                                = AltitudeRecord(lower.callsign, down, priority)
                      /\ (down < 1000 * FT /\ up <= 45000 * FT) =>
                            AltitudeRecordOf(Issued[1])
                                = AltitudeRecord(higher.callsign, up, priority)

HeadingRecord(callsign, new_heading, priority) ==
    [callsign |-> callsign, instruction_type |-> "heading_change",
     new_heading |-> new_heading, priority |-> priority]

HeadingRecordOf(instruction) ==
    IF instruction.instruction_type = "heading_change"
    THEN HeadingRecord(instruction.callsign, instruction.parameters.new_heading,
                       instruction.priority)
    ELSE [callsign |-> instruction.callsign, instruction_type |-> instruction.instruction_type]

\* neither aircraft of the conflict can be moved by altitude: the lower one has
\* no room below and the higher one none above
NoRoomByAltitude(conflict) ==
    LET first == PlaneNamed(conflict.aircraft1)
        second == PlaneNamed(conflict.aircraft2)
        lowest == Min2(first.altitude, second.altitude)
        highest == Max2(first.altitude, second.altitude)
        required_vertical ==
            IF first.altitude + second.altitude < 58000 * FT THEN 1000 * FT ELSE 2000 * FT
    IN  /\ lowest - required_vertical - 1000 * FT < 1000 * FT
        /\ highest + required_vertical + 1000 * FT > 45000 * FT

C18_HeadingAlwaysIssued_Step ==
    /\ \A conflict \in PolicyResolved :
          ( /\ ~AddressedWithinWindow(conflict.aircraft1, conflict.aircraft2, current_time)
            /\ NoRoomByAltitude(conflict) ) =>
              /\ Len(Issued) = 1
              /\ HeadingRecordOf(Issued[1])
                    = HeadingRecord(conflict.aircraft1,
                                    (PlaneNamed(conflict.aircraft1).heading + 30 * DEG)
                                        % (360 * DEG),
                                    IF conflict.severity = "high" THEN "high" ELSE "medium")
              /\ PlaneNamed(conflict.aircraft1)'.target_heading
                    = (PlaneNamed(conflict.aircraft1).heading + 30 * DEG) % (360 * DEG)
    /\ \A k \in 1..Len(Issued) :
          Issued[k].reason = "traffic_conflict" => Issued[k].instruction_type # "speed_change"

\* C18: resolving a conflict that altitude cannot resolve always issues one
\* instruction, to the first-named aircraft, with target heading (current heading
\* + 30) mod 360; no instruction to resolve a conflict is ever a speed change
C18_HeadingAlwaysIssued == [][C18_HeadingAlwaysIssued_Step]_vars

\* the first-named aircraft, heading 350, is vectored to heading 20
C18_Witness ==
    /\ call.op = "resolve_conflict"
    /\ PlaneNamed(call.conflict.aircraft1).heading = 350 * DEG
    /\ PlaneNamed(call.conflict.aircraft1).target_heading = 20 * DEG
    /\ Len(instructions) = 1
    /\ HeadingRecordOf(instructions[1])
          = HeadingRecord(call.conflict.aircraft1, 20 * DEG,
                          IF call.conflict.severity = "high" THEN "high" ELSE "medium")

\* the value in lo .. hi nearest to value
Nearest(value, lo, hi) == IF value < lo THEN lo ELSE IF value > hi THEN hi ELSE value

\* the pending targets an instruction leaves on the aircraft it is addressed to
TargetsAfter(ac, instruction) ==
    IF instruction.instruction_type = "altitude_change"
    THEN [ac EXCEPT !.target_altitude =
                Nearest(instruction.parameters.new_altitude, 1000 * FT, 45000 * FT)]
    ELSE IF instruction.instruction_type = "speed_change"
    THEN [ac EXCEPT !.target_speed = Nearest(instruction.parameters.new_speed, 120, 550)]
    ELSE [ac EXCEPT !.target_heading =
                CHOOSE h \in 0..(360 * DEG - 1) :
                    \E turns \in -2..2 :
                        h = instruction.parameters.new_heading + turns * 360 * DEG]

C19_IssueAppends_Step ==
    instructions' # instructions =>
        /\ Len(instructions') = Len(instructions) + 1
        /\ SubSeq(instructions', 1, Len(instructions)) = instructions
        /\ instruction_count' = instruction_count + 1
        /\ Len(aircraft') = Len(aircraft)
        /\ \E idx \in 1..Len(aircraft) :
              /\ aircraft[idx].callsign = Issued[1].callsign
              /\ aircraft'[idx] = TargetsAfter(aircraft[idx], Issued[1])
              /\ \A other \in 1..Len(aircraft) :
                    other # idx => aircraft'[other] = aircraft[other]

\* C19: a step that issues an instruction appends exactly one record to the end
\* of the log, leaves every record already there as and where it was, adds one to
\* instruction_count, and changes nothing of any aircraft but the addressed
\* aircraft's pending target of the instruction's kind, which becomes the
\* instructed value clamped to 1000..45000 ft for an altitude, to 120..550 kt for
\* a speed, and reduced mod 360 for a heading
C19_IssueAppends == [][C19_IssueAppends_Step]_vars

\* a speed of 600 kt instructed after an earlier instruction: the earlier record
\* is kept and the target speed is 550 kt
C19_Witness ==
    /\ call.op = "issue_instruction"
    /\ Len(instructions) = 2
    /\ instruction_count = 2
    /\ instructions[1].reason = "traffic_conflict"
    /\ instructions[2].instruction_type = "speed_change"
    /\ instructions[2].parameters.new_speed = 600
    /\ PlaneNamed(instructions[2].callsign).target_speed = 550

(***************************************************************************)
(* The violation record over the ticks of one violation                    *)
(***************************************************************************)
\* the safety monitor has just run on the aircraft as they are
SafetyJustRan == pc = StageAfter("safety")

\* C20: after every safety tick, the record of each pair in violation holds the
\* horizontal and vertical separation measured on that tick, and the minimum
\* separation achieved is no more than the horizontal separation measured on
\* that tick for any pair in violation
C20_RecordHoldsLastObserved ==
    SafetyJustRan =>
        \A key \in DOMAIN active_violations :
            LET violation == violations[active_violations[key]]
                observed == check_separation(PlaneNamed(violation.aircraft1),
                                             PlaneNamed(violation.aircraft2))
            IN  /\ violation.horizontal_separation = observed.horizontal
                /\ violation.vertical_separation = observed.vertical
                /\ min_separation_achieved(violations) <= observed.horizontal

(***************************************************************************)
(* The safety monitor on its own: a driver calls SafetyEvaluator.update    *)
(* once per tick of its clock on traffic it places as it likes             *)
(***************************************************************************)
MaxMonitorTicks == 4

\* UAL100 level at 10000 ft at the origin, AAL200 east of it and DAL300 20 NM
\* north of it
MonitorFleet(x2_nm, altitude2_ft, altitude3_ft) ==
    << Plane("UAL100", 0, 0, 10000, 450, 90, << >>),
       Plane("AAL200", x2_nm, 0, altitude2_ft, 450, 270, << >>),
       Plane("DAL300", 0, 20, altitude3_ft, 450, 90, << >>) >>

\* UAL100 and AAL200 in violation at the same level, in violation 500 ft apart,
\* separated but close, and far apart; DAL300 far off but 1200 ft above, at the
\* same level, and far above
MonitorFleets ==
    { MonitorFleet(4, 10000, 11200),
      MonitorFleet(2, 10500, 10000),
      MonitorFleet(6, 10000, 10000),
      MonitorFleet(40, 10000, 30000) }

\* the clock at the driver's first call
MonitorStarts == {0, 10 * SEC}

MonitorInit ==
    /\ aircraft \in MonitorFleets
    /\ time_step \in TimeSteps
    /\ current_time \in MonitorStarts
    /\ conflicts = << >>
    /\ instructions = << >>
    /\ instruction_count = 0
    /\ InitSafetyState(NewSafetyEvaluator)
    /\ pc = "safety"
    /\ call = [op |-> "none", first |-> current_time, ticks |-> 0]

\* SafetyEvaluator.update(aircraft, current_time)
MonitorUpdate ==
    /\ pc = "safety"
    /\ \E sv \in { safety_update(SafetyState, aircraft, current_time, << >>) } :
          SetSafetyState(sv)
    /\ pc' = "advance"
    /\ call' = [op |-> "update", first |-> call.first, ticks |-> call.ticks + 1]
    /\ UNCHANGED <<aircraft, clockVars, conflicts, atcVars>>

\* the driver advances its clock and moves the traffic
MonitorAdvance ==
    /\ pc = "advance"
    /\ call.ticks < MaxMonitorTicks
    /\ current_time' = current_time + time_step
    /\ aircraft' \in MonitorFleets
    /\ pc' = "safety"
    /\ call' = [op |-> "advance", first |-> call.first, ticks |-> call.ticks]
    /\ UNCHANGED <<time_step, conflicts, atcVars, safetyVars>>

MonitorNext ==
    \/ MonitorUpdate
    \/ MonitorAdvance

SpecMonitor == MonitorInit /\ [][MonitorNext]_vars

\* the pairs of positions in the traffic, first before second
PairsOfTraffic ==
    { p \in (1..Len(aircraft)) \X (1..Len(aircraft)) : p[1] < p[2] }

\* the pair-keys of the pairs of the traffic that are in violation
ViolatingKeys ==
    { pair_key(aircraft[p[1]].callsign, aircraft[p[2]].callsign) :
        p \in { q \in PairsOfTraffic : ~is_separated(aircraft[q[1]], aircraft[q[2]]) } }

C21_ViolationEpisodes_Step ==
    /\ pc # "safety" => violations' = violations /\ active_violations' = active_violations
    /\ pc = "safety" =>
          /\ DOMAIN active_violations' = ViolatingKeys
          /\ Len(violations')
                = Len(violations) + Cardinality(ViolatingKeys \ DOMAIN active_violations)
          /\ \A key \in ViolatingKeys \ DOMAIN active_violations :
                /\ active_violations'[key] > Len(violations)
                /\ violations'[active_violations'[key]].duration = 0
                /\ violations'[active_violations'[key]].timestamp = current_time
                /\ pair_key(violations'[active_violations'[key]].aircraft1,
                            violations'[active_violations'[key]].aircraft2) = key
          /\ \A key \in ViolatingKeys \cap DOMAIN active_violations :
                /\ active_violations'[key] = active_violations[key]
                /\ violations'[active_violations[key]]
                      = [violations[active_violations[key]] EXCEPT !.duration = @ + 1]
                /\ violations'[active_violations[key]].duration * time_step
                      = current_time - violations[active_violations[key]].timestamp
          /\ \A k \in 1..Len(violations) :
                (\A key \in ViolatingKeys \cap DOMAIN active_violations :
                    active_violations[key] # k)
                   => violations'[k] = violations[k]

SeparatedButClose(ac1, ac2) ==
    LET observed == check_separation(ac1, ac2)
        required_vertical ==
            IF ac1.altitude + ac2.altitude < 58000 * FT THEN 1000 * FT ELSE 2000 * FT
    IN  /\ is_separated(ac1, ac2)
        /\ \/ observed.horizontal < NMsq(15, 2)
           \/ /\ observed.vertical # 0
              /\ 2 * observed.vertical < 3 * required_vertical

\* the near misses the step has added
NewNearMisses == SubSeq(near_misses', Len(near_misses) + 1, Len(near_misses'))

C22_NearMissSampling_Step ==
    /\ Len(near_misses') >= Len(near_misses)
    /\ SubSeq(near_misses', 1, Len(near_misses)) = near_misses
    /\ pc # "safety" => near_misses' = near_misses
    /\ pc = "safety" =>
          /\ \A k \in 1..Len(NewNearMisses) :
                /\ NewNearMisses[k].timestamp = current_time
                /\ \E p \in PairsOfTraffic :
                      /\ NewNearMisses[k].aircraft1 = aircraft[p[1]].callsign
                      /\ NewNearMisses[k].aircraft2 = aircraft[p[2]].callsign
          /\ \A p \in PairsOfTraffic :
                Cardinality({ k \in 1..Len(NewNearMisses) :
                                /\ NewNearMisses[k].aircraft1 = aircraft[p[1]].callsign
                                /\ NewNearMisses[k].aircraft2 = aircraft[p[2]].callsign })
                   = IF SeparatedButClose(aircraft[p[1]], aircraft[p[2]]) THEN 1 ELSE 0

\* C22: on every tick, for every unordered pair, exactly one NearMiss is appended
\* if the pair is separated and min(horizontal / required horizontal, vertical /
\* required vertical, infinite at vertical separation 0) < 1.5, and none
\* otherwise, so that a pair in that condition for n ticks has n records; no
\* record is ever removed or changed
C22_NearMissSampling == [][C22_NearMissSampling_Step]_vars

\* a level pair close on two consecutive ticks has a record for each, while a
\* level pair 20 NM apart on the second has none
C22_Witness ==
    /\ pc = "advance"
    /\ \E k \in 1..Len(near_misses) : \E n \in (k + 1)..Len(near_misses) :
          /\ near_misses[k].aircraft1 = near_misses[n].aircraft1
          /\ near_misses[k].aircraft2 = near_misses[n].aircraft2
          /\ near_misses[k].vertical_separation = 0
          /\ near_misses[n].vertical_separation = 0
          /\ near_misses[n].timestamp = current_time
          /\ near_misses[k].timestamp = current_time - time_step
    /\ \E p \in PairsOfTraffic :
          /\ aircraft[p[1]].altitude = aircraft[p[2]].altitude
          /\ check_separation(aircraft[p[1]], aircraft[p[2]]).horizontal = Far
          /\ \A k \in 1..Len(near_misses) :
                near_misses[k].timestamp = current_time =>
                    <<near_misses[k].aircraft1, near_misses[k].aircraft2>>
                       # <<aircraft[p[1]].callsign, aircraft[p[2]].callsign>>

(***************************************************************************)
(* What the detector reports of a pair                                     *)
(***************************************************************************)
\* the lookaheads the detector is also asked about, besides the 300 s of
\* ATCSystem.update
DetectLookaheads == {0, 1, 60}

\* the predicted horizontal separation (squared) of the pair t seconds on
SampledSeparation(ac1, ac2, t) ==
    distance_to(predict_position(ac1, t), predict_position(ac2, t))

\* what is to be reported of the pair with lookahead L: nothing, or the earliest
\* offset of least predicted horizontal separation with the separations there
ExpectedOfPair(ac1, ac2, L) ==
    LET samples == { SampledSeparation(ac1, ac2, t) : t \in 0..(L - 1) }
        least == CHOOSE m \in samples : \A x \in samples : m <= x
        earliest == CHOOSE t \in 0..(L - 1) :
                        /\ SampledSeparation(ac1, ac2, t) = least
                        /\ \A u \in 0..(t - 1) : SampledSeparation(ac1, ac2, u) # least
        vertical == Abs(ac1.altitude - ac2.altitude)
        required_vertical ==
            IF ac1.altitude + ac2.altitude < 58000 * FT THEN 1000 * FT ELSE 2000 * FT
    IN  IF L >= 1 /\ least < NMsq(5, 1) /\ vertical < required_vertical
        THEN { [aircraft1 |-> ac1.callsign, aircraft2 |-> ac2.callsign,
                time_to_cpa |-> earliest,
                horizontal_separation_at_cpa |-> least,
                vertical_separation_at_cpa |-> vertical] }
        ELSE {}

\* a conflict without its severity
Reported(conflict) ==
    [aircraft1 |-> conflict.aircraft1, aircraft2 |-> conflict.aircraft2,
     time_to_cpa |-> conflict.time_to_cpa,
     horizontal_separation_at_cpa |-> conflict.horizontal_separation_at_cpa,
     vertical_separation_at_cpa |-> conflict.vertical_separation_at_cpa]

\* the list holds, for every pair of the traffic, what is to be reported of it
\* with lookahead L, once, and nothing else
ReportsThePairs(conflict_list, L) ==
    /\ \A p \in PairsOfTraffic :
          { Reported(conflict_list[k]) :
              k \in { n \in 1..Len(conflict_list) :
                        /\ conflict_list[n].aircraft1 = aircraft[p[1]].callsign
                        /\ conflict_list[n].aircraft2 = aircraft[p[2]].callsign } }
             = ExpectedOfPair(aircraft[p[1]], aircraft[p[2]], L)
    /\ Len(conflict_list)
          = Cardinality({ p \in PairsOfTraffic :
                            ExpectedOfPair(aircraft[p[1]], aircraft[p[2]], L) # {} })

\* C23: for every unordered pair the detector with lookahead L reports a conflict
\* iff the least predicted horizontal separation over the offsets 0 .. L-1 is
\* below 5 NM and the vertical separation there is below the required one; the
\* reported time to the closest approach is the earliest offset of that least
\* separation, and the reported vertical separation is the pair's current one
C23_ConflictIffSampledMin ==
    pc = "resolve" =>
        /\ ReportsThePairs(conflicts, LookaheadTime)
        /\ \A L \in DetectLookaheads : ReportsThePairs(detect_conflicts(aircraft, L), L)

\* a conflict whose closest approach lies ahead, between aircraft at different
\* levels, while another pair of the traffic has none
C23_Witness ==
    /\ pc = "resolve"
    /\ Len(aircraft) = 3
    /\ Len(conflicts) \in 1..2
    /\ \E k \in 1..Len(conflicts) :
          /\ conflicts[k].time_to_cpa > 0
          /\ conflicts[k].vertical_separation_at_cpa > 0

\* the pair-keys of the conflicts in the detector's list
ConflictKeys ==
    { pair_key(conflicts[k].aircraft1, conflicts[k].aircraft2) : k \in 1..Len(conflicts) }

\* C24: after the safety monitor has run in a step, every pair it holds in
\* violation has a conflict in the list the detector produced in that step
C24_ViolationIsDetected ==
    SafetyJustRan => DOMAIN active_violations \subseteq ConflictKeys

\* a pair in violation whose aircraft are moving apart, with its conflict
C24_Witness ==
    /\ SafetyJustRan
    /\ \E k \in 1..Len(conflicts) :
          /\ pair_key(conflicts[k].aircraft1, conflicts[k].aircraft2)
                \in DOMAIN active_violations
          /\ conflicts[k].time_to_cpa = 0
          /\ conflicts[k].horizontal_separation_at_cpa > 0
          /\ ActiveViolation(pair_key(conflicts[k].aircraft1, conflicts[k].aircraft2)).duration
                >= 2

C25_DetectedConflictsByAltitude_Step ==
    call'.op = "update" =>
        /\ \A k \in 1..Len(Issued) : Issued[k].instruction_type = "altitude_change"
        /\ Len(aircraft') = Len(aircraft)
        /\ \A i \in 1..Len(aircraft) :
              aircraft'[i].target_heading = aircraft[i].target_heading
        /\ ( /\ conflicts' # << >>
             /\ \A k \in 1..Len(conflicts') :
                   /\ conflicts'[k].severity \in {"high", "medium"}
                   /\ ~AddressedWithinWindow(conflicts'[k].aircraft1, conflicts'[k].aircraft2,
                                             current_time) )
           => Issued # << >>

\* C25: resolving the conflicts the detector has produced never gets past the
\* altitude rule: every instruction that ATCSystem.update, the controller's part
\* of Simulator.step, adds to the log is an altitude change, one is added when the
\* conflicts are of severity high or medium between aircraft not instructed
\* within the window, and the update sets no aircraft's target heading
C25_DetectedConflictsByAltitude == [][C25_DetectedConflictsByAltitude_Step]_vars

\* the update has sent the higher aircraft up because the lower one, at 2000 ft,
\* has no room to go down
C25_Witness ==
    /\ call.op = "update"
    /\ aircraft[1].altitude = 2000 * FT
    /\ aircraft[2].altitude = 2900 * FT
    /\ Len(instructions) = 1
    /\ AltitudeRecordOf(instructions[1])
          = AltitudeRecord(aircraft[2].callsign, 4900 * FT, instructions[1].priority)

(***************************************************************************)
(* The controller on a crowd: the driver of SpecATC with a clock that      *)
(* runs past the 60 s window                                               *)
(***************************************************************************)
MaxCrowdTime == 1300

\* seconds the driver lets pass between two calls
CrowdWaits == {30, 61}

\* time passes between two calls
CrowdWait ==
    /\ \E wait \in CrowdWaits :
          /\ current_time + wait * SEC <= MaxCrowdTime
          /\ current_time' = current_time + wait * SEC
    /\ call' = [op |-> "wait"]
    /\ UNCHANGED <<aircraft, time_step, conflicts, atcVars, safetyVars, pc>>

CrowdNext ==
    \/ ATCUpdate
    \/ CrowdWait

SpecCrowd == ATCInit /\ [][CrowdNext]_vars

\* C26 as stated: any two log entries with the same callsign have timestamps
\* more than 60 s apart
C26_NoRepeatWithinWindow ==
    \A k \in 1..Len(instructions) : \A n \in (k + 1)..Len(instructions) :
        instructions[k].callsign = instructions[n].callsign
            => instructions[n].timestamp - instructions[k].timestamp > 60 * SEC

\* C26: with a non-decreasing clock, two log entries with the same callsign of
\* which the earlier is among the 20 entries before the later have timestamps
\* more than 60 s apart
C26_NoRepeatWithinLast20 ==
    \A k \in 1..Len(instructions) : \A n \in (k + 1)..Len(instructions) :
        ( /\ instructions[k].callsign = instructions[n].callsign
          /\ n - k <= 20 )
            => instructions[n].timestamp - instructions[k].timestamp > 60 * SEC

\* an aircraft instructed again 61 s later, two entries on in a log of more than
\* 20 entries
C26_Witness ==
    /\ Len(instructions) > 20
    /\ \E k \in 1..Len(instructions) : \E n \in (k + 1)..Len(instructions) :
          /\ instructions[k].callsign = instructions[n].callsign
          /\ n - k <= 20
          /\ instructions[n].timestamp - instructions[k].timestamp = 61 * SEC

\* C27: once the monitor has been updated, simulation_start_time is the clock of
\* the first update, and after each update the simulation duration of the
\* metrics is the clock of that update less the clock of the first
C27_StartIsFirstClock ==
    call.ticks >= 1 =>
        /\ simulation_start_time = call.first
        /\ pc = "advance" => simulation_duration(SafetyState) = current_time - call.first

(***************************************************************************)
(* The report of a monitor that has seen some traffic                      *)
(***************************************************************************)
\* how many aircraft the monitor has seen, near misses it has recorded and
\* violations it has recorded
ReportAircraft == {0, 1, 20, 40, 50, 100}
ReportNearMisses == 0..6
ReportViolations == 0..1

\* n callsigns
Callsigns(n) == 1..n

ReportInit ==
    /\ aircraft = << >>
    /\ time_step = SEC
    /\ current_time = 0
    /\ conflicts = << >>
    /\ instructions = << >>
    /\ instruction_count = 0
    /\ \E seen \in ReportAircraft, missed \in ReportNearMisses, violated \in ReportViolations :
          InitSafetyState(
              [NewSafetyEvaluator EXCEPT
                  !.total_aircraft_seen = Callsigns(seen),
                  !.near_misses =
                      [k \in 1..missed |->
                          [aircraft1 |-> 1, aircraft2 |-> 2, timestamp |-> k * SEC,
                           horizontal_separation |-> NMsq(6, 1), vertical_separation |-> 0]],
                  !.violations =
                      [k \in 1..violated |->
                          [aircraft1 |-> 1, aircraft2 |-> 2, timestamp |-> 0,
                           horizontal_separation |-> NMsq(4, 1), vertical_separation |-> 0,
                           duration |-> 0, severity |-> "minor"]]])
    /\ pc = "update"
    /\ call = [op |-> "none"]

\* SafetyEvaluator.generate_report()
ReportGenerate ==
    /\ call.op = "none"
    /\ \E metrics \in { calculate_metrics(SafetyState) } :
          call' = [op |-> "generate_report",
                   metrics |-> metrics,
                   rating |-> calculate_safety_rating(metrics),
                   checks |-> threshold_checks(metrics)]
    /\ UNCHANGED <<aircraft, clockVars, conflicts, atcVars, safetyVars, pc>>

ReportNext == ReportGenerate

SpecReport == ReportInit /\ [][ReportNext]_vars

\* C28: in every report the rating is SAFE exactly when both threshold lines say
\* PASS, ACCEPTABLE exactly when there is no violation and the near-miss line
\* says WARNING, MARGINAL exactly when there is no violation and the near-miss
\* line says FAIL, and UNSAFE exactly when there is a violation
C28_RatingAgreesWithChecks ==
    call.op = "generate_report" =>
        /\ call.rating = "SAFE"
              <=> (call.checks.violations = "PASS" /\ call.checks.near_miss_rate = "PASS")
        /\ call.rating = "ACCEPTABLE"
              <=> (call.metrics.violation_count = 0 /\ call.checks.near_miss_rate = "WARNING")
        /\ call.rating = "MARGINAL"
              <=> (call.metrics.violation_count = 0 /\ call.checks.near_miss_rate = "FAIL")
        /\ call.rating = "UNSAFE" <=> call.metrics.violation_count > 0

(***************************************************************************)
(* The instruction log under clearing: a driver calls ATCSystem.update on  *)
(* a pair in conflict, lets time pass, and calls clear_old_instructions    *)
(***************************************************************************)
MaxClearTime == 2000

\* seconds the driver lets pass between two calls
ClearWaits == {30, 61}

\* how far back from the current time the driver keeps instructions
ClearKeeps == {0, 30}

ClearInit ==
    /\ aircraft = PolicyPair(10000, 90, 10000, 90)
    /\ time_step = SEC
    /\ current_time = 0
    /\ conflicts = << >>
    /\ instructions = << >>
    /\ instruction_count = 0
    /\ InitSafetyState(NewSafetyEvaluator)
    /\ pc = "update"
    /\ call = [op |-> "none"]

\* time passes between two calls
ClearWait ==
    /\ \E wait \in ClearWaits :
          /\ current_time + wait * SEC <= MaxClearTime
          /\ current_time' = current_time + wait * SEC
    /\ call' = [op |-> "wait"]
    /\ UNCHANGED <<aircraft, time_step, conflicts, atcVars, safetyVars, pc>>

\* ATCSystem.clear_old_instructions(before_time)
ClearOld ==
    /\ \E keep \in ClearKeeps :
          /\ instructions' = clear_old_instructions(instructions, current_time - keep * SEC)
          /\ call' = [op |-> "clear_old_instructions",
                      before_time |-> current_time - keep * SEC]
    /\ UNCHANGED <<aircraft, clockVars, conflicts, instruction_count, safetyVars, pc>>

ClearNext ==
    \/ PolicyUpdate
    \/ ClearWait
    \/ ClearOld

SpecClear == ClearInit /\ [][ClearNext]_vars

\* C29: in every state of the controller instruction_count is the number of
\* records in the instruction log, so that the total_instructions of get_status
\* and of get_statistics are the same number
C29_CountIsLogLength ==
    /\ instruction_count = Len(instructions)
    /\ get_status.total_instructions = get_statistics(instructions).total_instructions

(***************************************************************************)
(* The simulator under reset: the driver steps the simulation and calls    *)
(* Simulator.reset between two steps                                       *)
(***************************************************************************)
MaxResets == 2

ResetScenarios == { CloseHeadOn, ThreeAircraft }

ResetInit ==
    /\ aircraft \in ResetScenarios
    /\ time_step \in TimeSteps
    /\ current_time = 0
    /\ conflicts = << >>
    /\ instructions = << >>
    /\ instruction_count = 0
    /\ InitSafetyState(NewSafetyEvaluator)
    /\ pc = "update"
    /\ call = [op |-> "none", resets |-> 0]

\* Simulator.reset: the aircraft list is emptied, the clock set to 0.0, and a new
\* ATCSystem and a new SafetyEvaluator are built on the Airspace the simulator
\* already has
Reset ==
    /\ pc = "update"
    /\ call.resets < MaxResets
    /\ aircraft' = << >>
    /\ current_time' = 0
    /\ instructions' = << >>
    /\ instruction_count' = 0
    /\ SetSafetyState(NewSafetyEvaluator)
    /\ call' = [op |-> "reset", resets |-> call.resets + 1]
    /\ UNCHANGED <<time_step, conflicts, pc>>

ResetNext ==
    \/ Next
    \/ Reset

SpecReset == ResetInit /\ [][ResetNext]_vars

\* Simulator.get_status of a Simulator just constructed
FreshStatus ==
    [current_time |-> 0,
     num_aircraft |-> 0,
     active_conflicts |-> 0,
     total_instructions |-> 0,
     violations |-> 0,
     near_misses |-> 0]

\* C30: after Simulator.reset, whatever steps came before it, get_status reports
\* what it reports for a Simulator just constructed: clock 0 and no aircraft,
\* no active conflict, no instruction, no violation and no near miss
C30_ResetRestoresStatus_Step ==
    call'.resets # call.resets => get_status' = FreshStatus

C30_ResetRestoresStatus == [][C30_ResetRestoresStatus_Step]_vars

====
